---- MODULE Spec2Model ----
(***************************************************************************)
(* A model of the cflat type checker: the type model (types.cpp), the     *)
(* checking judgments of expressions, places, calls and statements and    *)
(* the top-level validation (ast.cpp), and the construction of the scope  *)
(* tables (checker.cpp).                                                   *)
(*                                                                         *)
(* Values.  A Type is a tuple whose first element is its TypeKind:        *)
(*   <<"INT">>  <<"NIL">>  <<"STRUCT", name>>  <<"ARRAY", elementType>>   *)
(*   <<"POINTER", pointeeType>>  <<"FUNCTION", paramTypes, returnType>>   *)
(* An AST node is a tuple whose first element is the name of its class.   *)
(* A std::optional member that is empty is the tuple <<"None">>.          *)
(* An exception is modelled by the text of its message without the        *)
(* rendered operands (the type and node strings spliced into it).         *)
(***************************************************************************)
EXTENDS Naturals, Sequences, FiniteSets, TLC

(***************************************************************************)
(* Bounds of the model.                                                    *)
(***************************************************************************)
\* The number of nodes of the types two of which typesEqual is applied to.
MaxTypeSize == 3

\* The number of statement nodes of the statements Statement::check is
\* applied to.
MaxStmtSize == 3

\* The number of statement nodes of the body of a function.
MaxBodySize == 4

\* The number of structs, of externs and of functions of a program.
MaxDecls == 1

\* The number of parameters and the number of locals of a function.
MaxVars == 1

\* The number of fields of a struct.
MaxFields == 2

\* The number of functions of a program that has several functions named
\* main.
MaxMains == 2

\* The arguments of a call checked on its own are at most this many.
MaxArgs == 2

\* The JSON of a type nests pointers, arrays and functions at most this deep.
MaxJsonDepth == 1

\* The programs whose functions come in every order have at most this many.
MaxFunctions == 3

\* The programs in which several steps of the check fail have at most this
\* many structs and this many functions.
MaxSteps == 2

(***************************************************************************)
(* types.hpp / types.cpp                                                   *)
(***************************************************************************)
IntType == <<"INT">>

NilType == <<"NIL">>

StructType(name) == <<"STRUCT", name>>

ArrayType(elementType) == <<"ARRAY", elementType>>

PointerType(pointeeType) == <<"POINTER", pointeeType>>

FunctionType(paramTypes, returnType) == <<"FUNCTION", paramTypes, returnType>>

getTypeKind(t) == t[1]

RECURSIVE typesEqual(_, _)

\* IntType::equals
IntEquals(self, other) == getTypeKind(other) = "INT"

\* A NilType::equals that forgets the arrays.
NilEqualsNoArray(self, other) ==
    getTypeKind(other) = "NIL" \/ getTypeKind(other) = "POINTER"

\* NilType::equals
NilEquals(self, other) ==
    \/ getTypeKind(other) = "NIL"
    \/ getTypeKind(other) = "ARRAY"
    \/ getTypeKind(other) = "POINTER"

\* StructType::equals
StructEquals(self, other) ==
    IF getTypeKind(other) # "STRUCT" THEN FALSE
    ELSE self[2] = other[2]

\* ArrayType::equals
ArrayEquals(self, other) ==
    IF getTypeKind(other) = "NIL" THEN TRUE
    ELSE IF getTypeKind(other) # "ARRAY" THEN FALSE
    ELSE typesEqual(self[2], other[2])

\* PointerType::equals
PointerEquals(self, other) ==
    IF getTypeKind(other) = "NIL" THEN TRUE
    ELSE IF getTypeKind(other) # "POINTER" THEN FALSE
    ELSE typesEqual(self[2], other[2])

\* A FunctionType::equals that forgets the return type.
FunctionEqualsNoReturn(self, other) ==
    IF getTypeKind(other) # "FUNCTION" THEN FALSE
    ELSE IF Len(self[2]) # Len(other[2]) THEN FALSE
    ELSE \A i \in 1..Len(self[2]) : typesEqual(self[2][i], other[2][i])

\* FunctionType::equals
FunctionEquals(self, other) ==
    IF getTypeKind(other) # "FUNCTION" THEN FALSE
    ELSE IF Len(self[2]) # Len(other[2]) THEN FALSE
    ELSE IF \E i \in 1..Len(self[2]) : ~typesEqual(self[2][i], other[2][i]) THEN FALSE
    ELSE typesEqual(self[3], other[3])

\* The virtual call lhs->equals(*rhs).
Equals(self, other) ==
    CASE getTypeKind(self) = "INT" -> IntEquals(self, other)
      [] getTypeKind(self) = "NIL" -> NilEquals(self, other)
      [] getTypeKind(self) = "STRUCT" -> StructEquals(self, other)
      [] getTypeKind(self) = "ARRAY" -> ArrayEquals(self, other)
      [] getTypeKind(self) = "POINTER" -> PointerEquals(self, other)
      [] getTypeKind(self) = "FUNCTION" -> FunctionEquals(self, other)

\* typesEqual, on the types buildType makes: no Type pointer of a built
\* program is null, so the two null tests of typesEqual never hold.
typesEqual(lhs, rhs) == Equals(lhs, rhs)

(***************************************************************************)
(* ast.cpp: expressions, places and calls.  check(gamma, delta) returns a *)
(* type or throws: [ok, type, err].  The check of a node is an operator   *)
(* of the results of the checks it makes of its children, which it reads  *)
(* in the order of the code: a result that is read after a throw does not *)
(* count.                                                                  *)
(***************************************************************************)
NoType == <<"None">>

TypeOk(t) == [ok |-> TRUE, type |-> t, err |-> ""]

TypeErr(message) == [ok |-> FALSE, type |-> NoType, err |-> message]

\* SelectCheck, were the type of the true case always the result.
SelectCheckTrueCase(guardType, ttCaseType, ffCaseType) ==
    IF ~guardType.ok THEN guardType
    ELSE IF getTypeKind(guardType.type) # "INT"
        THEN TypeErr("non-int type for select guard")
    ELSE IF ~ttCaseType.ok THEN ttCaseType
    ELSE IF ~ffCaseType.ok THEN ffCaseType
    ELSE IF ~typesEqual(ttCaseType.type, ffCaseType.type)
        THEN TypeErr("incompatible types in select branches")
    ELSE ttCaseType

\* Select::check
SelectCheck(guardType, ttCaseType, ffCaseType) ==
    IF ~guardType.ok THEN guardType
    ELSE IF getTypeKind(guardType.type) # "INT"
        THEN TypeErr("non-int type for select guard")
    ELSE IF ~ttCaseType.ok THEN ttCaseType
    ELSE IF ~ffCaseType.ok THEN ffCaseType
    ELSE IF ~typesEqual(ttCaseType.type, ffCaseType.type)
        THEN TypeErr("incompatible types in select branches")
    ELSE IF getTypeKind(ttCaseType.type) = "NIL" THEN ffCaseType
    ELSE ttCaseType

\* UnaryOperation::check
UnaryOperationCheck(operandType) ==
    IF ~operandType.ok THEN operandType
    ELSE IF getTypeKind(operandType.type) # "INT"
        THEN TypeErr("non-int operand type in unary op")
    ELSE TypeOk(IntType)

\* BinaryOperationCheck, were the kinds of the operands of Eq and NotEq not
\* to be tested.
BinaryOperationCheckAnyKind(operand, lhsType, rhsType) ==
    IF ~lhsType.ok THEN lhsType
    ELSE IF ~rhsType.ok THEN rhsType
    ELSE IF operand \in {"EQ", "NOT_EQ"} THEN
        IF ~typesEqual(lhsType.type, rhsType.type)
            THEN TypeErr("incompatible types in binary op")
        ELSE TypeOk(IntType)
    ELSE
        IF ~typesEqual(lhsType.type, IntType)
            THEN TypeErr("non-int type for left operand of binary op")
        ELSE IF ~typesEqual(rhsType.type, IntType)
            THEN TypeErr("non-int type for right operand of binary op")
        ELSE TypeOk(IntType)

\* BinaryOperation::check
BinaryOperationCheck(operand, lhsType, rhsType) ==
    IF ~lhsType.ok THEN lhsType
    ELSE IF ~rhsType.ok THEN rhsType
    ELSE IF operand \in {"EQ", "NOT_EQ"} THEN
        IF ~typesEqual(lhsType.type, rhsType.type)
            THEN TypeErr("incompatible types in binary op")
        ELSE IF getTypeKind(lhsType.type) \in {"STRUCT", "FUNCTION"}
            THEN TypeErr("invalid type used in binary op")
        ELSE IF getTypeKind(rhsType.type) \in {"STRUCT", "FUNCTION"}
            THEN TypeErr("invalid type used in binary op")
        ELSE TypeOk(IntType)
    ELSE
        IF ~typesEqual(lhsType.type, IntType)
            THEN TypeErr("non-int type for left operand of binary op")
        ELSE IF ~typesEqual(rhsType.type, IntType)
            THEN TypeErr("non-int type for right operand of binary op")
        ELSE TypeOk(IntType)

\* NewSingleton::check
NewSingletonCheck(type) ==
    IF getTypeKind(type) \in {"NIL", "FUNCTION"}
        THEN TypeErr("invalid type used for allocation")
    ELSE TypeOk(PointerType(type))

\* NewArrayCheck, were an array of structs to be allowed as a singleton is.
NewArrayCheckStructAllowed(type, sizeType) ==
    IF ~sizeType.ok THEN sizeType
    ELSE IF ~typesEqual(sizeType.type, IntType)
        THEN TypeErr("non-int type used for second argument of allocation")
    ELSE IF getTypeKind(type) \in {"NIL", "FUNCTION"}
        THEN TypeErr("invalid type used for first argument of allocation")
    ELSE TypeOk(ArrayType(type))

\* NewArray::check
NewArrayCheck(type, sizeType) ==
    IF ~sizeType.ok THEN sizeType
    ELSE IF ~typesEqual(sizeType.type, IntType)
        THEN TypeErr("non-int type used for second argument of allocation")
    ELSE IF getTypeKind(type) \in {"NIL", "FUNCTION", "STRUCT"}
        THEN TypeErr("invalid type used for first argument of allocation")
    ELSE TypeOk(ArrayType(type))

\* Identifier::check
IdentifierCheck(name, gamma) ==
    IF name \in DOMAIN gamma THEN TypeOk(gamma[name])
    ELSE TypeErr("id does not exist in this scope")

\* DereferenceCheck, were an array to be dereferenced to its element.
DereferenceCheckArrayToo(pointeeType) ==
    IF ~pointeeType.ok THEN pointeeType
    ELSE IF getTypeKind(pointeeType.type) \in {"POINTER", "ARRAY"}
        THEN TypeOk(pointeeType.type[2])
    ELSE TypeErr("non-pointer type for dereference")

\* Dereference::check
DereferenceCheck(pointeeType) ==
    IF ~pointeeType.ok THEN pointeeType
    ELSE IF getTypeKind(pointeeType.type) = "POINTER"
        THEN TypeOk(pointeeType.type[2])
    ELSE TypeErr("non-pointer type for dereference")

\* ArrayAccess::check
ArrayAccessCheck(arrayType, indexType) ==
    IF ~arrayType.ok THEN arrayType
    ELSE IF ~indexType.ok THEN indexType
    ELSE IF ~typesEqual(indexType.type, IntType)
        THEN TypeErr("non-int index type for array access")
    ELSE IF getTypeKind(arrayType.type) = "ARRAY"
        THEN TypeOk(arrayType.type[2])
    ELSE TypeErr("non-array type for array access")

RECURSIVE toStringPretty(_)
RECURSIVE ParamsPretty(_, _)

\* The loop of FunctionType::toStringPretty, from parameter i on.
ParamsPretty(paramTypes, i) ==
    IF i > Len(paramTypes) THEN ""
    ELSE toStringPretty(paramTypes[i]) \o (IF i = Len(paramTypes) THEN "" ELSE ", ")
            \o ParamsPretty(paramTypes, i + 1)

\* Type::toStringPretty
toStringPretty(t) ==
    CASE getTypeKind(t) = "INT" -> "int"
      [] getTypeKind(t) = "NIL" -> "nil"
      [] getTypeKind(t) = "STRUCT" -> t[2]
      [] getTypeKind(t) = "ARRAY" -> "[" \o toStringPretty(t[2]) \o "]"
      [] getTypeKind(t) = "POINTER" -> "&" \o toStringPretty(t[2])
      [] getTypeKind(t) = "FUNCTION" ->
            "(" \o ParamsPretty(t[2], 1) \o ") -> " \o toStringPretty(t[3])

\* FieldAccess::check.  A message has the rendered type, struct and field
\* spliced in; the text of the access itself, which is the same whatever the
\* scope it is checked in, is not.
FieldAccessCheck(baseType, field, delta) ==
    IF ~baseType.ok THEN baseType
    ELSE IF getTypeKind(baseType.type) # "POINTER"
        THEN TypeErr(toStringPretty(baseType.type)
                     \o " is not a struct pointer type in field access")
    ELSE IF getTypeKind(baseType.type[2]) # "STRUCT"
        THEN TypeErr(toStringPretty(baseType.type)
                     \o " is not a struct pointer type in field access")
    ELSE IF baseType.type[2][2] \notin DOMAIN delta
        THEN TypeErr("non-existent struct type " \o toStringPretty(baseType.type[2])
                     \o " in field access")
    ELSE IF field \notin DOMAIN delta[baseType.type[2][2]]
        THEN TypeErr("non-existent field " \o toStringPretty(baseType.type[2]) \o "::"
                     \o field \o " in field access")
    ELSE TypeOk(delta[baseType.type[2][2]][field])

\* The largest of a non-empty set of numbers.
Greatest(S) == CHOOSE k \in S : \A j \in S : j <= k

\* The smallest of a non-empty set of numbers.
Least(S) == CHOOSE k \in S : \A j \in S : k <= j

\* CallCheck, were the callee to be checked before it is compared with main.
CallCheckCalleeFirst(c, calleeType, argTypes) ==
    LET callee == c[2]
        args == c[3]
        callsMain == /\ callee[1] = "Value"
                     /\ callee[2][1] = "Identifier"
                     /\ callee[2][2] = "main"
        functionType ==
            IF getTypeKind(calleeType.type) = "FUNCTION" THEN calleeType.type
            ELSE IF /\ getTypeKind(calleeType.type) = "POINTER"
                    /\ getTypeKind(calleeType.type[2]) = "FUNCTION"
                THEN calleeType.type[2]
            ELSE NoType
        failing == {k \in 1..Len(args) :
                        \/ ~argTypes[k].ok
                        \/ ~typesEqual(argTypes[k].type, functionType[2][k])}
    IN  IF ~calleeType.ok THEN calleeType
        ELSE IF callsMain THEN TypeErr("trying to call 'main'")
        ELSE IF functionType = NoType
            THEN TypeErr("trying to call type as function pointer in call")
        ELSE IF Len(args) # Len(functionType[2])
            THEN TypeErr("incorrect number of arguments in call")
        ELSE IF failing = {} THEN TypeOk(functionType[3])
        ELSE IF ~argTypes[Least(failing)].ok THEN argTypes[Least(failing)]
        ELSE TypeErr("incompatible argument type "
                     \o toStringPretty(argTypes[Least(failing)].type)
                     \o " vs parameter type "
                     \o toStringPretty(functionType[2][Least(failing)])
                     \o " in call")

\* FunctionCall::check of the call c, given the result of the check of its
\* callee and of each of its arguments.  The callee is an Expression, so
\* directId is the Identifier its Value wraps, if it is such a Value.  The
\* types of a message are rendered; the nodes are not.
CallCheck(c, calleeType, argTypes) ==
    LET callee == c[2]
        args == c[3]
        callsMain == /\ callee[1] = "Value"
                     /\ callee[2][1] = "Identifier"
                     /\ callee[2][2] = "main"
        functionType ==
            IF getTypeKind(calleeType.type) = "FUNCTION" THEN calleeType.type
            ELSE IF /\ getTypeKind(calleeType.type) = "POINTER"
                    /\ getTypeKind(calleeType.type[2]) = "FUNCTION"
                THEN calleeType.type[2]
            ELSE NoType
        failing == {k \in 1..Len(args) :
                        \/ ~argTypes[k].ok
                        \/ ~typesEqual(argTypes[k].type, functionType[2][k])}
    IN  IF callsMain THEN TypeErr("trying to call 'main'")
        ELSE IF ~calleeType.ok THEN calleeType
        ELSE IF functionType = NoType
            THEN TypeErr("trying to call type as function pointer in call")
        ELSE IF Len(args) # Len(functionType[2])
            THEN TypeErr("incorrect number of arguments in call")
        ELSE IF failing = {} THEN TypeOk(functionType[3])
        ELSE IF ~argTypes[Least(failing)].ok THEN argTypes[Least(failing)]
        ELSE TypeErr("incompatible argument type "
                     \o toStringPretty(argTypes[Least(failing)].type)
                     \o " vs parameter type "
                     \o toStringPretty(functionType[2][Least(failing)])
                     \o " in call")

RECURSIVE ExpressionCheck(_, _, _)

\* The virtual call place->check(gamma, delta).
PlaceCheck(p, gamma, delta) ==
    CASE p[1] = "Identifier" -> IdentifierCheck(p[2], gamma)
      [] p[1] = "Dereference" -> DereferenceCheck(ExpressionCheck(p[2], gamma, delta))
      [] p[1] = "ArrayAccess" ->
            ArrayAccessCheck(ExpressionCheck(p[2], gamma, delta),
                             ExpressionCheck(p[3], gamma, delta))
      [] p[1] = "FieldAccess" ->
            FieldAccessCheck(ExpressionCheck(p[2], gamma, delta), p[3], delta)

\* FunctionCall::check
FunctionCallCheck(c, gamma, delta) ==
    CallCheck(c, ExpressionCheck(c[2], gamma, delta),
              [k \in 1..Len(c[3]) |-> ExpressionCheck(c[3][k], gamma, delta)])

\* Value::check, Number::check, Nil::check, CallExpression::check and the
\* virtual call expression->check(gamma, delta).
ExpressionCheck(e, gamma, delta) ==
    CASE e[1] = "Value" -> PlaceCheck(e[2], gamma, delta)
      [] e[1] = "Number" -> TypeOk(IntType)
      [] e[1] = "Nil" -> TypeOk(NilType)
      [] e[1] = "Select" ->
            SelectCheck(ExpressionCheck(e[2], gamma, delta),
                        ExpressionCheck(e[3], gamma, delta),
                        ExpressionCheck(e[4], gamma, delta))
      [] e[1] = "UnaryOperation" -> UnaryOperationCheck(ExpressionCheck(e[3], gamma, delta))
      [] e[1] = "BinaryOperation" ->
            BinaryOperationCheck(e[2], ExpressionCheck(e[3], gamma, delta),
                                 ExpressionCheck(e[4], gamma, delta))
      [] e[1] = "NewSingleton" -> NewSingletonCheck(e[2])
      [] e[1] = "NewArray" -> NewArrayCheck(e[2], ExpressionCheck(e[3], gamma, delta))
      [] e[1] = "CallExpression" -> FunctionCallCheck(e[2], gamma, delta)

(***************************************************************************)
(* ast.cpp: statements.  check(gamma, delta, returnType, inLoop) returns  *)
(* whether the statement definitely returns, or throws: [ok, returns, err].*)
(***************************************************************************)
StmtOk(returns) == [ok |-> TRUE, returns |-> returns, err |-> ""]

StmtErr(message) == [ok |-> FALSE, returns |-> FALSE, err |-> message]

\* A failed expression check, thrown on through a statement.
Rethrow(typeResult) == StmtErr(typeResult.err)

\* StatementsUpdate, were the loop to assign doesReturn on every iteration.
StatementsUpdateOverwrite(doesReturn, childReturns) == childReturns

\* One iteration of the loop of Statements::check, on a child that checked
\* without an error: the new value of doesReturn.
StatementsUpdate(doesReturn, childReturns) ==
    IF doesReturn THEN doesReturn ELSE childReturns

\* AssignmentCheck, were the kind of the place not to be tested.
AssignmentCheckAnyPlace(lhsType, rhsType) ==
    IF ~lhsType.ok THEN Rethrow(lhsType)
    ELSE IF ~rhsType.ok THEN Rethrow(rhsType)
    ELSE IF ~typesEqual(lhsType.type, rhsType.type)
        THEN StmtErr("incompatible types for assignment")
    ELSE StmtOk(FALSE)

\* Assignment::check
AssignmentCheck(lhsType, rhsType) ==
    IF ~lhsType.ok THEN Rethrow(lhsType)
    ELSE IF ~rhsType.ok THEN Rethrow(rhsType)
    ELSE IF getTypeKind(lhsType.type) \in {"STRUCT", "FUNCTION", "NIL"}
        THEN StmtErr("invalid type for left-hand side of assignment")
    ELSE IF ~typesEqual(lhsType.type, rhsType.type)
        THEN StmtErr("incompatible types for assignment")
    ELSE StmtOk(FALSE)

\* CallStatement::check
CallStatementCheck(callType) ==
    IF ~callType.ok THEN Rethrow(callType) ELSE StmtOk(FALSE)

\* IfCheck, were an if without an else to return what its happyPath returns.
IfCheckElseOptional(guardType, happyPath, hasUnhappyPath, unhappyPath) ==
    IF ~guardType.ok THEN Rethrow(guardType)
    ELSE IF ~typesEqual(guardType.type, IntType)
        THEN StmtErr("non-int type for if guard")
    ELSE IF ~happyPath.ok THEN happyPath
    ELSE IF hasUnhappyPath /\ ~unhappyPath.ok THEN unhappyPath
    ELSE StmtOk(happyPath.returns /\ (IF hasUnhappyPath THEN unhappyPath.returns
                                      ELSE TRUE))

\* If::check; unhappyPath is read only when the if has one.
IfCheck(guardType, happyPath, hasUnhappyPath, unhappyPath) ==
    IF ~guardType.ok THEN Rethrow(guardType)
    ELSE IF ~typesEqual(guardType.type, IntType)
        THEN StmtErr("non-int type for if guard")
    ELSE IF ~happyPath.ok THEN happyPath
    ELSE IF hasUnhappyPath /\ ~unhappyPath.ok THEN unhappyPath
    ELSE StmtOk(happyPath.returns /\ (IF hasUnhappyPath THEN unhappyPath.returns
                                      ELSE FALSE))

\* WhileCheck, were a while to return what its body returns.
WhileCheckBodyResult(guardType, body) ==
    IF ~guardType.ok THEN Rethrow(guardType)
    ELSE IF ~typesEqual(guardType.type, IntType)
        THEN StmtErr("non-int type for while guard")
    ELSE body

\* While::check; body is the check of its body with inLoop true.
WhileCheck(guardType, body) ==
    IF ~guardType.ok THEN Rethrow(guardType)
    ELSE IF ~typesEqual(guardType.type, IntType)
        THEN StmtErr("non-int type for while guard")
    ELSE IF ~body.ok THEN body
    ELSE StmtOk(FALSE)

\* BreakCheck, were a break to be accepted wherever it is.
BreakCheckAnywhere(inLoop) == StmtOk(FALSE)

\* Break::check
BreakCheck(inLoop) ==
    IF ~inLoop THEN StmtErr("break outside loop") ELSE StmtOk(FALSE)

\* Continue::check
ContinueCheck(inLoop) ==
    IF ~inLoop THEN StmtErr("continue outside loop") ELSE StmtOk(FALSE)

\* ReturnCheck, were the type of the expression to be the return type itself.
ReturnCheckSameType(hasExpression, expressionType, returnType) ==
    IF hasExpression THEN
        IF ~expressionType.ok THEN Rethrow(expressionType)
        ELSE IF expressionType.type # returnType
            THEN StmtErr("incompatible return type")
        ELSE StmtOk(TRUE)
    ELSE IF ~typesEqual(returnType, IntType)
        THEN StmtErr("missing return expression for non-int function type")
    ELSE StmtErr("return statement requires an expression in this function")

\* ReturnCheck, were a return without an expression to be accepted in a
\* function that returns Int.
ReturnCheckBareAllowed(hasExpression, expressionType, returnType) ==
    IF hasExpression THEN
        IF ~expressionType.ok THEN Rethrow(expressionType)
        ELSE IF ~typesEqual(expressionType.type, returnType)
            THEN StmtErr("incompatible return type")
        ELSE StmtOk(TRUE)
    ELSE IF ~typesEqual(returnType, IntType)
        THEN StmtErr("missing return expression for non-int function type")
    ELSE StmtOk(TRUE)

\* Return::check; expressionType is read only when the return has an
\* expression.
ReturnCheck(hasExpression, expressionType, returnType) ==
    IF hasExpression THEN
        IF ~expressionType.ok THEN Rethrow(expressionType)
        ELSE IF ~typesEqual(expressionType.type, returnType)
            THEN StmtErr("incompatible return type")
        ELSE StmtOk(TRUE)
    ELSE IF ~typesEqual(returnType, IntType)
        THEN StmtErr("missing return expression for non-int function type")
    ELSE StmtErr("return statement requires an expression in this function")

RECURSIVE StatementCheck(_, _, _, _, _)
RECURSIVE StatementsLoop(_, _, _, _, _, _, _)

\* The loop of Statements::check, from child k on.
StatementsLoop(statements, k, doesReturn, gamma, delta, returnType, inLoop) ==
    IF k > Len(statements) THEN StmtOk(doesReturn)
    ELSE LET child == StatementCheck(statements[k], gamma, delta, returnType, inLoop)
         IN  IF ~child.ok THEN child
             ELSE StatementsLoop(statements, k + 1,
                                 StatementsUpdate(doesReturn, child.returns),
                                 gamma, delta, returnType, inLoop)

\* Statements::check
StatementsCheck(s, gamma, delta, returnType, inLoop) ==
    StatementsLoop(s[2], 1, FALSE, gamma, delta, returnType, inLoop)

\* The virtual call statement->check(gamma, delta, returnType, inLoop).
StatementCheck(s, gamma, delta, returnType, inLoop) ==
    CASE s[1] = "Statements" -> StatementsCheck(s, gamma, delta, returnType, inLoop)
      [] s[1] = "Assignment" ->
            AssignmentCheck(PlaceCheck(s[2], gamma, delta),
                            ExpressionCheck(s[3], gamma, delta))
      [] s[1] = "CallStatement" -> CallStatementCheck(FunctionCallCheck(s[2], gamma, delta))
      [] s[1] = "If" ->
            IfCheck(ExpressionCheck(s[2], gamma, delta),
                    StatementCheck(s[3], gamma, delta, returnType, inLoop),
                    s[4] # NoType,
                    IF s[4] # NoType
                        THEN StatementCheck(s[4], gamma, delta, returnType, inLoop)
                    ELSE StmtOk(FALSE))
      [] s[1] = "While" ->
            WhileCheck(ExpressionCheck(s[2], gamma, delta),
                       StatementCheck(s[3], gamma, delta, returnType, TRUE))
      [] s[1] = "Break" -> BreakCheck(inLoop)
      [] s[1] = "Continue" -> ContinueCheck(inLoop)
      [] s[1] = "Return" ->
            ReturnCheck(s[2] # NoType,
                        IF s[2] # NoType THEN ExpressionCheck(s[2], gamma, delta)
                        ELSE TypeOk(NoType),
                        returnType)

(***************************************************************************)
(* The types buildType can build, by their number of nodes.               *)
(***************************************************************************)
RECURSIVE TypesOfSize(_)
RECURSIVE TypeSeqsOfSize(_)

\* The sequences of types whose sizes add up to n.
TypeSeqsOfSize(n) ==
    IF n = 0 THEN {<<>>}
    ELSE UNION {{<<t>> \o rest : t \in TypesOfSize(k), rest \in TypeSeqsOfSize(n - k)} :
                k \in 1..n}

\* The types of exactly n nodes.
TypesOfSize(n) ==
    LET StructNames == {"S", "T"}
    IN  IF n = 1 THEN {IntType, NilType} \cup {StructType(s) : s \in StructNames}
        ELSE {ArrayType(t) : t \in TypesOfSize(n - 1)}
             \cup {PointerType(t) : t \in TypesOfSize(n - 1)}
             \cup UNION {{FunctionType(ps, r) : ps \in TypeSeqsOfSize(n - 1 - k),
                                                r \in TypesOfSize(k)} : k \in 1..(n - 1)}

\* Whether the Nil variant occurs anywhere in t.
RECURSIVE HasNil(_)
HasNil(t) ==
    CASE getTypeKind(t) = "NIL" -> TRUE
      [] getTypeKind(t) \in {"INT", "STRUCT"} -> FALSE
      [] getTypeKind(t) \in {"ARRAY", "POINTER"} -> HasNil(t[2])
      [] getTypeKind(t) = "FUNCTION" ->
            HasNil(t[3]) \/ \E i \in 1..Len(t[2]) : HasNil(t[2][i])

(***************************************************************************)
(* ast.cpp: the top-level nodes.  A Declaration is [name, type], a        *)
(* StructDefinition [name, fields], an Extern [name, paramTypes,          *)
(* returnType], a FunctionDefinition [name, params, returnType, locals,   *)
(* body] and a Program [structs, externs, functions].  A check that       *)
(* returns nothing is modelled by the message it throws, "" for none.     *)
(***************************************************************************)
NoError == ""

RECURSIVE FieldsLoop(_, _, _)

\* FieldsLoop, were a field of a Struct type not to be refused.
FieldsLoopStructAllowed(fields, i, fieldNames) ==
    IF i > Len(fields) THEN NoError
    ELSE IF getTypeKind(fields[i].type) \in {"NIL", "FUNCTION"}
        THEN "invalid type for struct field"
    ELSE IF fields[i].name \in fieldNames
        THEN "Duplicate field name in struct"
    ELSE FieldsLoop(fields, i + 1, fieldNames)

\* The loop of StructDefinition::check, from field i on.  Nothing is ever
\* inserted into fieldNames.
FieldsLoop(fields, i, fieldNames) ==
    IF i > Len(fields) THEN NoError
    ELSE IF getTypeKind(fields[i].type) \in {"NIL", "STRUCT", "FUNCTION"}
        THEN "invalid type for struct field"
    ELSE IF fields[i].name \in fieldNames
        THEN "Duplicate field name in struct"
    ELSE FieldsLoop(fields, i + 1, fieldNames)

\* StructDefinition::check
StructDefinitionCheck(s, gamma, delta) ==
    IF Len(s.fields) = 0 THEN "empty struct"
    ELSE FieldsLoop(s.fields, 1, {})

RECURSIVE VariablesLoop(_, _, _, _)
RECURSIVE VariablesLoopKeepsBinding(_, _, _, _)

\* VariablesLoop, were a name that localGamma already binds to keep its type.
VariablesLoopKeepsBinding(declarations, i, localGamma, localNames) ==
    IF i > Len(declarations) THEN [err |-> NoError, localGamma |-> localGamma]
    ELSE IF getTypeKind(declarations[i].type) \in {"NIL", "STRUCT", "FUNCTION"}
        THEN [err |-> "invalid type for variable in function", localGamma |-> localGamma]
    ELSE IF declarations[i].name \in localNames
        THEN [err |-> "Duplicate parameter/local name in function",
              localGamma |-> localGamma]
    ELSE VariablesLoopKeepsBinding(declarations, i + 1,
                       localGamma @@ (declarations[i].name :> declarations[i].type),
                       localNames)

\* A loop of FunctionDefinition::check over params or over locals, from
\* declaration i on: the message thrown and the localGamma reached.
\* Nothing is ever inserted into localNames.
VariablesLoop(declarations, i, localGamma, localNames) ==
    IF i > Len(declarations) THEN [err |-> NoError, localGamma |-> localGamma]
    ELSE IF getTypeKind(declarations[i].type) \in {"NIL", "STRUCT", "FUNCTION"}
        THEN [err |-> "invalid type for variable in function", localGamma |-> localGamma]
    ELSE IF declarations[i].name \in localNames
        THEN [err |-> "Duplicate parameter/local name in function",
              localGamma |-> localGamma]
    ELSE VariablesLoop(declarations, i + 1,
                       (declarations[i].name :> declarations[i].type) @@ localGamma,
                       localNames)

\* The localGamma the body of f is checked in, when its declarations pass.
LocalGamma(f, gamma) ==
    VariablesLoop(f.locals, 1, VariablesLoop(f.params, 1, gamma, {}).localGamma, {}).localGamma

\* BodyCheck, were the result of the check of the body not to be tested.
BodyCheckNoReturnTest(f, localGamma, delta) ==
    LET doesReturn == StatementCheck(f.body, localGamma, delta, f.returnType, FALSE)
    IN  IF f.body[1] # "Statements"
            THEN "function has an invalid body structure (expected Stmts)"
        ELSE IF Len(f.body[2]) = 0 THEN "function has an empty body"
        ELSE IF ~doesReturn.ok THEN doesReturn.err
        ELSE NoError

\* The end of FunctionDefinition::check: the body and its result.  The body
\* buildFunctionDefintion makes is never null.
BodyCheck(f, localGamma, delta) ==
    LET doesReturn == StatementCheck(f.body, localGamma, delta, f.returnType, FALSE)
    IN  IF f.body[1] # "Statements"
            THEN "function has an invalid body structure (expected Stmts)"
        ELSE IF Len(f.body[2]) = 0 THEN "function has an empty body"
        ELSE IF ~doesReturn.ok THEN doesReturn.err
        ELSE IF ~doesReturn.returns THEN "function may not execute a return"
        ELSE NoError

\* FunctionDefinition::check
FunctionDefinitionCheck(f, gamma, delta) ==
    LET localNames == {}
        params == VariablesLoop(f.params, 1, gamma, localNames)
        locals == VariablesLoop(f.locals, 1, params.localGamma, localNames)
    IN  IF params.err # NoError THEN params.err
        ELSE IF locals.err # NoError THEN locals.err
        ELSE BodyCheck(f, locals.localGamma, delta)

\* The three loops of Program::check over the top-level names.  Nothing is
\* ever inserted into topLevelNames.
TopLevelNamesCheck(p, topLevelNames) ==
    IF \E i \in 1..Len(p.structs) : p.structs[i].name \in topLevelNames
        THEN "Duplicate name"
    ELSE IF \E i \in 1..Len(p.externs) : p.externs[i].name \in topLevelNames
        THEN "Duplicate name"
    ELSE IF \E i \in 1..Len(p.functions) :
                /\ p.functions[i].name # "main"
                /\ p.functions[i].name \in topLevelNames
        THEN "Duplicate name"
    ELSE NoError

\* The loop of Program::check that looks for main.
MainFound(p) ==
    \E i \in 1..Len(p.functions) :
        /\ p.functions[i].name = "main"
        /\ Len(p.functions[i].params) = 0
        /\ typesEqual(p.functions[i].returnType, IntType)

(***************************************************************************)
(* checker.cpp: the scope tables.                                          *)
(***************************************************************************)
EmptyMap == [n \in {} |-> NoType]

RECURSIVE GammaFunctions(_, _, _)
RECURSIVE GammaExterns(_, _, _)
RECURSIVE DeltaStructs(_, _, _)
RECURSIVE DeltaFields(_, _, _)

\* The parameter types of a function, in order.
ParamTypes(f) == [i \in 1..Len(f.params) |-> f.params[i].type]

GammaExterns(externs, i, gamma) ==
    IF i > Len(externs) THEN gamma
    ELSE GammaExterns(externs, i + 1,
            (externs[i].name :> FunctionType(externs[i].paramTypes, externs[i].returnType))
                @@ gamma)

GammaFunctions(functions, i, gamma) ==
    IF i > Len(functions) THEN gamma
    ELSE IF functions[i].name # "main"
        THEN GammaFunctions(functions, i + 1,
                (functions[i].name :>
                    PointerType(FunctionType(ParamTypes(functions[i]),
                                             functions[i].returnType)))
                    @@ gamma)
    ELSE GammaFunctions(functions, i + 1, gamma)

\* constructGamma
constructGamma(externs, functions) ==
    GammaFunctions(functions, 1, GammaExterns(externs, 1, EmptyMap))

DeltaFields(fields, i, map) ==
    IF i > Len(fields) THEN map
    ELSE DeltaFields(fields, i + 1, (fields[i].name :> fields[i].type) @@ map)

DeltaStructs(structs, i, delta) ==
    IF i > Len(structs) THEN delta
    ELSE DeltaStructs(structs, i + 1,
            (structs[i].name :> DeltaFields(structs[i].fields, 1, EmptyMap)) @@ delta)

\* constructDelta
constructDelta(structs) == DeltaStructs(structs, 1, EmptyMap)

(***************************************************************************)
(* ast.cpp: Program::check as a whole, the message it throws or "".       *)
(***************************************************************************)
\* The loop of Program::check over the structs: the message of the first
\* struct that does not check.
StructsLoop(structs, gamma, delta) ==
    LET failing == {i \in 1..Len(structs) :
                        StructDefinitionCheck(structs[i], gamma, delta) # NoError}
    IN  IF failing = {} THEN NoError
        ELSE StructDefinitionCheck(structs[Least(failing)], gamma, delta)

\* The loop of Program::check over the functions: the message of the first
\* function that does not check.
FunctionsLoop(functions, gamma, delta) ==
    LET failing == {i \in 1..Len(functions) :
                        FunctionDefinitionCheck(functions[i], gamma, delta) # NoError}
    IN  IF failing = {} THEN NoError
        ELSE FunctionDefinitionCheck(functions[Least(failing)], gamma, delta)

\* Program::check
ProgramCheck(p) ==
    LET gamma == constructGamma(p.externs, p.functions)
        delta == constructDelta(p.structs)
    IN  IF TopLevelNamesCheck(p, {}) # NoError THEN TopLevelNamesCheck(p, {})
        ELSE IF ~MainFound(p) THEN "no 'main' function with type '() -> int' exists"
        ELSE IF StructsLoop(p.structs, gamma, delta) # NoError
            THEN StructsLoop(p.structs, gamma, delta)
        ELSE FunctionsLoop(p.functions, gamma, delta)

(***************************************************************************)
(* The statements buildStatement can build, by their number of statement  *)
(* nodes, over given leaves and guards.                                    *)
(***************************************************************************)
Number == <<"Number", 0>>

Nil == <<"Nil">>

Identifier(name) == <<"Identifier", name>>

Value(place) == <<"Value", place>>

FunctionCall(callee, args) == <<"FunctionCall", callee, args>>

Statements(statements) == <<"Statements", statements>>

Assignment(place, expression) == <<"Assignment", place, expression>>

CallStatement(functionCall) == <<"CallStatement", functionCall>>

If(guard, happyPath, unhappyPath) == <<"If", guard, happyPath, unhappyPath>>

While(guard, body) == <<"While", guard, body>>

Break == <<"Break">>

Continue == <<"Continue">>

Return(expression) == <<"Return", expression>>

RECURSIVE StmtsOfSize(_, _, _)
RECURSIVE StmtSeqsOfSize(_, _, _)

\* The sequences of statements whose sizes add up to n.
StmtSeqsOfSize(n, leaves, guards) ==
    IF n = 0 THEN {<<>>}
    ELSE UNION {{<<s>> \o rest : s \in StmtsOfSize(k, leaves, guards),
                                 rest \in StmtSeqsOfSize(n - k, leaves, guards)} :
                k \in 1..n}

\* The statements of exactly n nodes.
StmtsOfSize(n, leaves, guards) ==
    IF n = 1 THEN leaves \cup {Statements(<<>>)}
    ELSE {If(g, s, NoType) : g \in guards, s \in StmtsOfSize(n - 1, leaves, guards)}
         \cup UNION {{If(g, s, t) : g \in guards,
                                    s \in StmtsOfSize(k, leaves, guards),
                                    t \in StmtsOfSize(n - 1 - k, leaves, guards)} :
                     k \in 1..(n - 2)}
         \cup {While(g, s) : g \in guards, s \in StmtsOfSize(n - 1, leaves, guards)}
         \cup {Statements(ss) : ss \in StmtSeqsOfSize(n - 1, leaves, guards)}

StmtsUpTo(n, leaves, guards) == UNION {StmtsOfSize(k, leaves, guards) : k \in 1..n}

(***************************************************************************)
(* The inputs of the statement checks: a statement, with the scope of a   *)
(* function that has an Int variable x and can call a function f, and has *)
(* a variable of each other kind of type a declaration may have (p, a, q, *)
(* n) and an extern h in scope.                                            *)
(***************************************************************************)
StmtGamma ==
    ("x" :> IntType) @@ ("f" :> PointerType(FunctionType(<<>>, IntType)))
    @@ ("p" :> PointerType(IntType)) @@ ("a" :> ArrayType(IntType))
    @@ ("q" :> PointerType(StructType("S"))) @@ ("n" :> PointerType(NilType))
    @@ ("h" :> FunctionType(<<>>, IntType))

StmtDelta == EmptyMap

StmtInputs ==
    LET CallF == FunctionCall(Value(Identifier("f")), <<>>)
        StmtLeaves ==
            {Return(Number), Return(Nil), Return(NoType), Break, Continue,
             Assignment(Identifier("x"), Number), CallStatement(CallF)}
        StmtGuards == {Number, Nil}
    IN  StmtsUpTo(MaxStmtSize, StmtLeaves, StmtGuards)

SeqsUpTo(S, n) == UNION {[1..k -> S] : k \in 0..n}

(***************************************************************************)
(* The inputs of Expression::check: the nodes of                           *)
(* ast.hpp that the statements above do not build, the scope an expression *)
(* is checked in, and every expression of one operator, allocation, call   *)
(* or place over operands of each kind of type.                            *)
(***************************************************************************)
Select(guard, ttCase, ffCase) == <<"Select", guard, ttCase, ffCase>>

UnaryOperation(operand, expression) == <<"UnaryOperation", operand, expression>>

BinaryOperation(operand, lhs, rhs) == <<"BinaryOperation", operand, lhs, rhs>>

NewSingleton(type) == <<"NewSingleton", type>>

NewArray(type, size) == <<"NewArray", type, size>>

CallExpression(functionCall) == <<"CallExpression", functionCall>>

Dereference(pointer) == <<"Dereference", pointer>>

ArrayAccess(array, index) == <<"ArrayAccess", array, index>>

FieldAccess(pointer, field) == <<"FieldAccess", pointer, field>>

ExprGammas ==
    LET \* The scope without main: a variable of each kind of type that a variable
        \* can have, a function as an extern binds it (f) and as a function
        \* definition binds it (g); u is bound nowhere.
        ExprScope ==
            ("i" :> IntType) @@ ("p" :> PointerType(IntType)) @@ ("a" :> ArrayType(IntType))
            @@ ("q" :> PointerType(StructType("S")))
            @@ ("f" :> FunctionType(<<IntType, PointerType(IntType)>>, PointerType(IntType)))
            @@ ("g" :> PointerType(FunctionType(<<IntType>>, IntType)))
        \* What gamma can bind main to: nothing, or the type of an extern, of a
        \* function definition, or of a parameter or local of that name.
        MainBindings ==
            {NoType, FunctionType(<<>>, IntType), PointerType(FunctionType(<<>>, IntType)),
             IntType}
        \* What gamma binds r to: a pointer to a struct that delta does not have,
        \* whose name is any string (here one that reads as a type does), or a
        \* pointer to a pointer.
        RBindings == {PointerType(StructType("&int")), PointerType(PointerType(IntType))}
    IN  {(IF b = NoType THEN ExprScope ELSE ExprScope @@ ("main" :> b)) @@ ("r" :> c) :
            b \in MainBindings, c \in RBindings}

ExprDelta == "S" :> (("v" :> IntType) @@ ("w" :> PointerType(IntType)))

ExprInputs ==
    LET UnaryOperands == {"NEG", "NOT"}
        BinaryOperands ==
            {"ADD", "SUB", "MUL", "DIV", "AND", "OR", "EQ", "NOT_EQ", "LT", "LTE", "GT", "GTE"}
        ExprNames == {"i", "p", "a", "q", "r", "f", "g", "u", "main"}
        \* The operands: a number, nil, each name, and what q and r point to.
        Atoms ==
            {Number, Nil, Value(Dereference(Value(Identifier("q")))),
             Value(Dereference(Value(Identifier("r"))))}
                \cup {Value(Identifier(n)) : n \in ExprNames}
        ArgAtoms == {Number, Nil, Value(Identifier("p")), Value(Identifier("u"))}
        AllocTypes ==
            {IntType, NilType, StructType("S"), PointerType(StructType("S")),
             ArrayType(IntType), FunctionType(<<>>, IntType)}
        ExprFields == {"v", "w", "z"}
        ExprPlaces ==
            {Dereference(e) : e \in Atoms}
                \cup {ArrayAccess(e[1], e[2]) : e \in Atoms \X Atoms}
                \cup {FieldAccess(e, n) : e \in Atoms, n \in ExprFields}
        ExprCalls ==
            {FunctionCall(callee, args) : callee \in Atoms, args \in SeqsUpTo(ArgAtoms, MaxArgs)}
    IN  Atoms
            \cup {Value(p) : p \in ExprPlaces}
            \cup {Select(e[1], e[2], e[3]) : e \in Atoms \X Atoms \X Atoms}
            \cup {UnaryOperation(o, e) : o \in UnaryOperands, e \in Atoms}
            \cup {BinaryOperation(o, e[1], e[2]) : o \in BinaryOperands, e \in Atoms \X Atoms}
            \cup {NewSingleton(t) : t \in AllocTypes}
            \cup {NewArray(t, e) : t \in AllocTypes, e \in Atoms}
            \cup {CallExpression(c) : c \in ExprCalls}

(***************************************************************************)
(* The assignments and returns over places and operands of each kind of   *)
(* type, in the scope StmtGamma, and the return types a function can     *)
(* declare.                                                                *)
(***************************************************************************)
LeafInputs ==
    LET \* The places: each name (u is bound nowhere), what p, q, n and a point to
        \* (an Int, a struct, a Nil, and nothing: a is no pointer), an element of a.
        StmtPlaces ==
            {Identifier(v) : v \in {"x", "p", "a", "q", "f", "h", "u"}}
                \cup {Dereference(Value(Identifier(v))) : v \in {"p", "q", "n", "a"}}
                \cup {ArrayAccess(Value(Identifier("a")), Number)}
        StmtOperands == {Number, Nil} \cup {Value(place) : place \in StmtPlaces}
        AssignmentInputs == {Assignment(place, e) : place \in StmtPlaces, e \in StmtOperands}
        ReturnInputs == {Return(e) : e \in StmtOperands \cup {NoType}}
    IN  AssignmentInputs \cup ReturnInputs

(***************************************************************************)
(* The inputs of Program::check.                                           *)
(***************************************************************************)
Declaration(name, type) == [name |-> name, type |-> type]

ReturnZero == Statements(<<Return(Number)>>)

\* A struct, an extern and a function that check, under a given name.
StructNamed(name) == [name |-> name, fields |-> <<Declaration("v", IntType)>>]

FunctionNamed(name) ==
    [name |-> name, params |-> <<>>, returnType |-> IntType, locals |-> <<>>,
     body |-> ReturnZero]

Main(locals, body) ==
    [name |-> "main", params |-> <<>>, returnType |-> IntType, locals |-> locals,
     body |-> body]

\* Programs that differ in the names of their top-level declarations.
NamePrograms ==
    LET ExternNamed(name) == [name |-> name, paramTypes |-> <<IntType>>, returnType |-> IntType]
    IN  LET TopNames == {"A", "B", "main"}
        IN  {[structs |-> [i \in 1..Len(ss) |-> StructNamed(ss[i])],
              externs |-> [i \in 1..Len(es) |-> ExternNamed(es[i])],
              functions |-> [i \in 1..Len(fs) |-> FunctionNamed(fs[i])]] :
                ss \in SeqsUpTo(TopNames, MaxDecls),
                es \in SeqsUpTo(TopNames, MaxDecls),
                fs \in SeqsUpTo(TopNames, MaxDecls)}

\* Programs that differ in the parameters and locals of a function f, which
\* returns its variable x.
VarPrograms ==
    LET VarNames == {"x", "y"}
        VarTypes == {IntType, PointerType(IntType)}
        VarDeclarations == {Declaration(n, t) : n \in VarNames, t \in VarTypes}
    IN  {[structs |-> <<>>, externs |-> <<>>,
          functions |-> <<[name |-> "f", params |-> ps, returnType |-> IntType,
                           locals |-> ls,
                           body |-> Statements(<<Return(Value(Identifier("x")))>>)],
                          Main(<<>>, ReturnZero)>>] :
            ps \in SeqsUpTo(VarDeclarations, MaxVars),
            ls \in SeqsUpTo(VarDeclarations, MaxVars)}

\* Programs that differ in the body of main, which has an Int local x.
BodyPrograms ==
    LET BodyLeaves ==
            {Return(Number), Break, Continue, Assignment(Identifier("x"), Number)}
        BodyGuards == {Number}
        \* Bodies that end with a return that follows a while.
        LoopBodies ==
            {Statements(<<While(Number, s), Return(Number)>>) :
                s \in StmtsUpTo(MaxBodySize - 2, BodyLeaves, BodyGuards)}
        Bodies ==
            {s \in StmtsUpTo(MaxBodySize, BodyLeaves, BodyGuards) : s[1] = "Statements"}
                \cup LoopBodies
    IN  {[structs |-> <<>>, externs |-> <<>>,
          functions |-> <<Main(<<Declaration("x", IntType)>>, body)>>] : body \in Bodies}

\* Programs that differ in the fields of a struct S.
FieldPrograms ==
    LET FieldNames == {"v", "w"}
        FieldTypes ==
            {IntType, NilType, StructType("S"), PointerType(StructType("S")),
             ArrayType(IntType), FunctionType(<<>>, IntType)}
        FieldDeclarations == {Declaration(n, t) : n \in FieldNames, t \in FieldTypes}
    IN  {[structs |-> <<[name |-> "S", fields |-> fs]>>, externs |-> <<>>,
          functions |-> <<Main(<<>>, ReturnZero)>>] :
            fs \in SeqsUpTo(FieldDeclarations, MaxFields)}

\* Programs that differ in how many functions named main they have, and of
\* which types.
MainPrograms ==
    LET \* A function named main with given parameters that returns a value of its
        \* return type.
        MainOf(params, returnType) ==
            [name |-> "main", params |-> params, returnType |-> returnType, locals |-> <<>>,
             body |-> Statements(<<Return(IF returnType = IntType THEN Number ELSE Nil)>>)]
    IN  LET MainVariants ==
                {MainOf(ps, t) : ps \in {<<>>, <<Declaration("x", IntType)>>},
                                 t \in {IntType, PointerType(IntType)}}
        IN  {[structs |-> <<>>, externs |-> <<>>, functions |-> fs] :
                fs \in SeqsUpTo(MainVariants \cup {FunctionNamed("A")}, MaxMains)}

\* A function that returns its variable x.
ReturningX(name, params, locals) ==
    [name |-> name, params |-> params, returnType |-> IntType, locals |-> locals,
     body |-> Statements(<<Return(Value(Identifier("x")))>>)]

\* Programs with two functions f and g that each return x, and differ in the
\* parameters and locals each of them declares.
ScopePrograms ==
    LET VarNames == {"x", "y"}
        IntDeclarations == {Declaration(n, IntType) : n \in VarNames}
    IN  {[structs |-> <<>>, externs |-> <<>>,
          functions |-> <<ReturningX("f", fps, fls), ReturningX("g", gps, gls),
                          Main(<<>>, ReturnZero)>>] :
            fps \in SeqsUpTo(IntDeclarations, MaxVars),
            fls \in SeqsUpTo(IntDeclarations, MaxVars),
            gps \in SeqsUpTo(IntDeclarations, MaxVars),
            gls \in SeqsUpTo(IntDeclarations, MaxVars)}

\* Programs with a struct S and a function f that differ in where f uses S:
\* in the types of its parameters and locals, in its return type, in what it
\* allocates and returns.
StructPrograms ==
    LET StructDeclarations ==
            {Declaration("q", PointerType(StructType("S"))), Declaration("q", StructType("S")),
             Declaration("s", StructType("S"))}
        StructReturnTypes ==
            {IntType, StructType("S"), PointerType(StructType("S")), ArrayType(StructType("S"))}
        \* What a function that has to do with a struct S returns: what q points to,
        \* q, a number, a new S, a new array of S.
        StructReturns ==
            {Value(Dereference(Value(Identifier("q")))), Value(Identifier("q")), Number,
             Value(Dereference(NewSingleton(StructType("S")))),
             NewArray(StructType("S"), Number)}
    IN  {[structs |-> <<StructNamed("S")>>, externs |-> <<>>,
          functions |-> <<[name |-> "f", params |-> ps, returnType |-> t, locals |-> ls,
                           body |-> Statements(<<Return(e)>>)],
                          Main(<<>>, ReturnZero)>>] :
            ps \in SeqsUpTo(StructDeclarations, MaxVars),
            ls \in SeqsUpTo(StructDeclarations, MaxVars),
            t \in StructReturnTypes,
            e \in StructReturns}

\* Programs of some of these functions, each at most once, in every order.
OrderPrograms ==
    LET \* Functions to put in some order: two named A that differ in their
        \* parameters, one that calls A without arguments, one whose body does not
        \* return, and a main that calls A without arguments.
        OrderedFunctions ==
            {FunctionNamed("A"),
             [name |-> "A", params |-> <<Declaration("x", IntType)>>, returnType |-> IntType,
              locals |-> <<>>, body |-> ReturnZero],
             [name |-> "B", params |-> <<>>, returnType |-> IntType, locals |-> <<>>,
              body |-> Statements(<<Return(CallExpression(
                            FunctionCall(Value(Identifier("A")), <<>>)))>>)],
             [name |-> "C", params |-> <<>>, returnType |-> IntType, locals |-> <<>>,
              body |-> Statements(<<Break>>)],
             Main(<<>>, Statements(<<Return(CallExpression(
                            FunctionCall(Value(Identifier("A")), <<>>)))>>))}
    IN  {[structs |-> <<>>, externs |-> <<>>, functions |-> fs] :
            fs \in {gs \in SeqsUpTo(OrderedFunctions, MaxFunctions) :
                        \A i, j \in 1..Len(gs) : gs[i] = gs[j] => i = j}}

\* Programs in which any of the steps of Program::check may fail, and
\* several at once: some of these structs, some of these functions and,
\* or not, a main that checks after them.
FailPrograms ==
    LET \* A function named main with given parameters that returns a value of its
        \* return type.
        MainOf(params, returnType) ==
            [name |-> "main", params |-> params, returnType |-> returnType, locals |-> <<>>,
             body |-> Statements(<<Return(IF returnType = IntType THEN Number ELSE Nil)>>)]
    IN  LET \* Structs for the loop over the structs: one that checks, an empty one, one
            \* with a field of a Nil type.
            FailStructs ==
                {StructNamed("S"), [name |-> "E", fields |-> <<>>],
                 [name |-> "T", fields |-> <<Declaration("v", NilType)>>]}
            \* Functions for the search for main and the loop over the functions: a
            \* main that checks, a main with a parameter, a function whose body is a
            \* break, a function with a parameter of a Nil type.
            FailFunctions ==
                {Main(<<>>, ReturnZero), MainOf(<<Declaration("x", IntType)>>, IntType),
                 [name |-> "C", params |-> <<>>, returnType |-> IntType, locals |-> <<>>,
                  body |-> Statements(<<Break>>)],
                 [name |-> "D", params |-> <<Declaration("x", NilType)>>, returnType |-> IntType,
                  locals |-> <<>>, body |-> ReturnZero]}
        IN  {[structs |-> ss, externs |-> <<>>, functions |-> fs \o last] :
                ss \in SeqsUpTo(FailStructs, MaxSteps), fs \in SeqsUpTo(FailFunctions, MaxSteps),
                last \in {<<>>, <<Main(<<>>, ReturnZero)>>}}

\* Programs with an extern A, a function B and a function f that returns A
\* or B, and that differ in which of the two names f declares as parameters
\* and as locals, and of which types.
ShadowPrograms ==
    LET ExternNamed(name) == [name |-> name, paramTypes |-> <<IntType>>, returnType |-> IntType]
    IN  LET VarTypes == {IntType, PointerType(IntType)}
            ShadowNames == {"A", "B"}
            ShadowDeclarations == {Declaration(n, t) : n \in ShadowNames, t \in VarTypes}
        IN  {[structs |-> <<>>, externs |-> <<ExternNamed("A")>>,
              functions |-> <<[name |-> "f", params |-> ps, returnType |-> t, locals |-> ls,
                               body |-> Statements(<<Return(Value(Identifier(n)))>>)],
                              FunctionNamed("B"), Main(<<>>, ReturnZero)>>] :
                ps \in SeqsUpTo(ShadowDeclarations, MaxVars),
                ls \in SeqsUpTo(ShadowDeclarations, MaxVars),
                t \in VarTypes, n \in ShadowNames}

(***************************************************************************)
(* checker.cpp: the builders.  A JSON value is <<"string", s>>,            *)
(* <<"number", 0>>, <<"null">>, <<"array", elements>> or <<"object",       *)
(* members>>.  A builder returns what it built (kind "ok"), or throws a    *)
(* std::runtime_error of its own (kind "runtime_error") or lets through    *)
(* the exception of a json accessor that finds a value of the wrong type   *)
(* (kind "json_exception"; nlohmann::json::type_error is a std::exception  *)
(* and no std::runtime_error).                                             *)
(***************************************************************************)
JString(s) == <<"string", s>>

JNumber == <<"number", 0>>

JNull == <<"null">>

JArray(elements) == <<"array", elements>>

JObject(members) == <<"object", members>>

Built(value) == [kind |-> "ok", value |-> value, what |-> ""]

RuntimeError(what) == [kind |-> "runtime_error", value |-> NoType, what |-> what]

JsonException(what) == [kind |-> "json_exception", value |-> NoType, what |-> what]

\* json.contains(key)
Contains(json, key) == json[1] = "object" /\ key \in DOMAIN json[2]

\* json.get<std::string>()
GetString(json) ==
    IF json[1] = "string" THEN Built(json[2])
    ELSE JsonException("type must be string")

\* A loop that builds each element in turn: the first exception, or the
\* sequence of what was built.
BuildEach(results) ==
    LET failing == {i \in 1..Len(results) : results[i].kind # "ok"}
    IN  IF failing = {} THEN Built([i \in 1..Len(results) |-> results[i].value])
        ELSE results[Least(failing)]

RECURSIVE buildType(_)

\* buildType
buildType(json) ==
    IF json[1] = "string" THEN
        IF json[2] = "Int" THEN Built(IntType)
        ELSE IF json[2] = "Nil" THEN Built(NilType)
        ELSE RuntimeError("Unknown simple type string: " \o json[2])
    ELSE IF Contains(json, "Struct") THEN
        IF GetString(json[2]["Struct"]).kind # "ok" THEN GetString(json[2]["Struct"])
        ELSE Built(StructType(json[2]["Struct"][2]))
    ELSE IF Contains(json, "Ptr") THEN
        IF buildType(json[2]["Ptr"]).kind # "ok" THEN buildType(json[2]["Ptr"])
        ELSE Built(PointerType(buildType(json[2]["Ptr"]).value))
    ELSE IF Contains(json, "Array") THEN
        IF buildType(json[2]["Array"]).kind # "ok" THEN buildType(json[2]["Array"])
        ELSE Built(ArrayType(buildType(json[2]["Array"]).value))
    ELSE IF Contains(json, "Fn") THEN
        IF \/ json[2]["Fn"][1] # "array"
           \/ Len(json[2]["Fn"][2]) # 2
           \/ json[2]["Fn"][2][1][1] # "array"
            THEN RuntimeError("Invalid JSON for Function type signature.")
        ELSE IF BuildEach([i \in 1..Len(json[2]["Fn"][2][1][2]) |->
                                buildType(json[2]["Fn"][2][1][2][i])]).kind # "ok"
            THEN BuildEach([i \in 1..Len(json[2]["Fn"][2][1][2]) |->
                                buildType(json[2]["Fn"][2][1][2][i])])
        ELSE IF buildType(json[2]["Fn"][2][2]).kind # "ok"
            THEN buildType(json[2]["Fn"][2][2])
        ELSE Built(FunctionType(
                    BuildEach([i \in 1..Len(json[2]["Fn"][2][1][2]) |->
                                    buildType(json[2]["Fn"][2][1][2][i])]).value,
                    buildType(json[2]["Fn"][2][2]).value))
    ELSE IF Contains(json, "kind") THEN
        IF GetString(json[2]["kind"]).kind # "ok" THEN GetString(json[2]["kind"])
        ELSE IF json[2]["kind"][2] = "Int" THEN Built(IntType)
        ELSE IF json[2]["kind"][2] = "Nil" THEN Built(NilType)
        ELSE RuntimeError("Invalid JSON for Type")
    ELSE RuntimeError("Invalid JSON for Type")

\* json.begin().key() of an object with one member.
FirstKey(json) == CHOOSE key \in DOMAIN json[2] : TRUE

\* buildPlace, of the documents below: an Id, or a place of no kind.
buildPlace(json) ==
    IF json[1] # "object" \/ DOMAIN json[2] = {}
        THEN RuntimeError("Invalid JSON for Place: Must be non-empty object")
    ELSE IF FirstKey(json) = "Id" THEN
        IF GetString(json[2]["Id"]).kind # "ok" THEN GetString(json[2]["Id"])
        ELSE Built(Identifier(json[2]["Id"][2]))
    ELSE RuntimeError("JSON node is not a valid Place kind")

\* buildExpression, of the documents below: a Num, a Nil, an Id, or an
\* expression of no kind.
buildExpression(json) ==
    IF json[1] # "object" \/ DOMAIN json[2] = {} THEN
        IF json = JString("Nil") THEN Built(Nil)
        ELSE RuntimeError("Invalid JSON for Exp: Must be non-empty object or known literal")
    ELSE IF FirstKey(json) = "Id" THEN
        IF buildPlace(json).kind # "ok" THEN buildPlace(json)
        ELSE Built(Value(buildPlace(json).value))
    ELSE IF FirstKey(json) = "Num" THEN
        IF json[2]["Num"][1] # "number" THEN JsonException("type must be number")
        ELSE Built(Number)
    ELSE IF FirstKey(json) = "Nil" THEN Built(Nil)
    ELSE RuntimeError("Unknown/Unhandled expression kind")

\* buildStatement, of the documents below: a Break, a Continue, a Return,
\* or a statement of no kind.
buildStatement(json) ==
    IF json[1] = "string" THEN
        IF json[2] = "Break" THEN Built(Break)
        ELSE IF json[2] = "Continue" THEN Built(Continue)
        ELSE RuntimeError("Unknown simple string statement: " \o json[2])
    ELSE IF json[1] # "object" \/ DOMAIN json[2] = {}
        THEN RuntimeError("Invalid JSON for Statement")
    ELSE IF FirstKey(json) = "Return" THEN
        IF json[2]["Return"] = JNull THEN Built(Return(NoType))
        ELSE IF buildExpression(json[2]["Return"]).kind # "ok"
            THEN buildExpression(json[2]["Return"])
        ELSE Built(Return(buildExpression(json[2]["Return"]).value))
    ELSE RuntimeError("Unknown statement kind object")

\* buildDeclaration
buildDeclaration(json) ==
    IF ~Contains(json, "name") \/ ~Contains(json, "typ")
        THEN RuntimeError("Invalid JSON for Decl")
    ELSE IF GetString(json[2]["name"]).kind # "ok" THEN GetString(json[2]["name"])
    ELSE IF buildType(json[2]["typ"]).kind # "ok" THEN buildType(json[2]["typ"])
    ELSE Built(Declaration(json[2]["name"][2], buildType(json[2]["typ"]).value))

\* buildFunctionDefintion, of functions whose prms and locals are arrays.
buildFunctionDefintion(json) ==
    LET name == GetString(json[2]["name"])
        returnType == buildType(json[2]["rettyp"])
        params == BuildEach([i \in 1..Len(json[2]["prms"][2]) |->
                                buildDeclaration(json[2]["prms"][2][i])])
        locals == BuildEach([i \in 1..Len(json[2]["locals"][2]) |->
                                buildDeclaration(json[2]["locals"][2][i])])
        statements == BuildEach([i \in 1..Len(json[2]["stmts"][2]) |->
                                    buildStatement(json[2]["stmts"][2][i])])
    IN  IF \E key \in {"name", "prms", "rettyp", "locals", "stmts"} : ~Contains(json, key)
            THEN RuntimeError("Invalid JSON for Function definition")
        ELSE IF name.kind # "ok" THEN name
        ELSE IF returnType.kind # "ok" THEN returnType
        ELSE IF params.kind # "ok" THEN params
        ELSE IF locals.kind # "ok" THEN locals
        ELSE IF json[2]["stmts"][1] # "array"
            THEN RuntimeError("Invalid JSON: function 'stmts' must be an array")
        ELSE IF statements.kind # "ok" THEN statements
        ELSE Built([name |-> name.value, params |-> params.value,
                    returnType |-> returnType.value, locals |-> locals.value,
                    body |-> Statements(statements.value)])

\* buildProgram, of documents whose structs and externs are empty arrays and
\* whose functions are an array.
buildProgram(json) ==
    LET functions == BuildEach([i \in 1..Len(json[2]["functions"][2]) |->
                                    buildFunctionDefintion(json[2]["functions"][2][i])])
    IN  IF \E key \in {"structs", "externs", "functions"} : ~Contains(json, key)
            THEN RuntimeError("Invalid JSON for Program root object")
        ELSE IF functions.kind # "ok" THEN functions
        ELSE Built([structs |-> <<>>, externs |-> <<>>, functions |-> functions.value])

(***************************************************************************)
(* The inputs of main: a file that is no JSON text, or a JSON document:    *)
(* a program of one function in which one part varies (a type, a           *)
(* statement, the shape of the function or of the root).                   *)
(***************************************************************************)
RECURSIVE TypeJsonsOfDepth(_)

\* The JSON values a type is built from, nested at most d deep.
TypeJsonsOfDepth(d) ==
    IF d = 0
        THEN {JString("Int"), JString("Nil"), JString("Bool"), JNumber, JNull,
              JArray(<<>>), JObject(EmptyMap),
              JObject("Struct" :> JString("S")), JObject("Struct" :> JNumber),
              JObject("kind" :> JString("Int")), JObject("kind" :> JString("Bogus")),
              JObject("kind" :> JNumber), JObject("Fn" :> JString("Int"))}
    ELSE TypeJsonsOfDepth(0)
         \cup {JObject("Ptr" :> t) : t \in TypeJsonsOfDepth(d - 1)}
         \cup {JObject("Array" :> t) : t \in TypeJsonsOfDepth(d - 1)}
         \cup {JObject("Fn" :> JArray(<<JArray(<<t>>), JString("Int")>>)) :
                    t \in TypeJsonsOfDepth(d - 1)}
         \cup {JObject("Fn" :> JArray(<<JArray(<<>>), t>>)) :
                    t \in TypeJsonsOfDepth(d - 1)}

Documents ==
    LET \* A file that is no JSON text.
        Malformed == <<"malformed">>
    IN  LET ReturnZeroJson == JArray(<<JObject("Return" :> JObject("Num" :> JNumber))>>)
            TypeJsons == TypeJsonsOfDepth(MaxJsonDepth)
            StmtsJsons ==
                {ReturnZeroJson, JNumber,
                 JArray(<<JString("Break")>>), JArray(<<JString("Goto")>>),
                 JArray(<<JObject("Goto" :> JNull)>>), JArray(<<JNumber>>),
                 JArray(<<JObject("Return" :> JNull)>>),
                 JArray(<<JObject("Return" :> JString("Nil"))>>),
                 JArray(<<JObject("Return" :> JObject("Sqrt" :> JNumber))>>),
                 JArray(<<JObject("Return" :> JObject("Num" :> JString("0")))>>),
                 JArray(<<JObject("Return" :> JObject("Id" :> JString("x")))>>),
                 JArray(<<JObject("Return" :> JObject("Id" :> JNumber))>>)}
            DeclarationJson(name, typ) == JObject(("name" :> name) @@ ("typ" :> typ))
            FunctionJson(name, rettyp, locals, stmts) ==
                JObject(("name" :> name) @@ ("prms" :> JArray(<<>>)) @@ ("rettyp" :> rettyp)
                        @@ ("locals" :> JArray(locals)) @@ ("stmts" :> stmts))
            ProgramJson(functions) ==
                JObject(("structs" :> JArray(<<>>)) @@ ("externs" :> JArray(<<>>))
                        @@ ("functions" :> JArray(functions)))
        IN  {ProgramJson(<<FunctionJson(JString("main"), t, <<>>, ReturnZeroJson)>>) :
                t \in TypeJsons}
            \cup {ProgramJson(<<FunctionJson(JString("main"), JString("Int"),
                                             <<DeclarationJson(JString("x"), t)>>,
                                             ReturnZeroJson)>>) : t \in TypeJsons}
            \cup {ProgramJson(<<FunctionJson(JString("main"), JString("Int"), <<>>, ss)>>) :
                    ss \in StmtsJsons}
            \cup {ProgramJson(<<FunctionJson(JString("main"), JString("Int"),
                                             <<DeclarationJson(JString("x"), JString("Int"))>>, ss)>>) :
                    ss \in StmtsJsons}
            \cup {ProgramJson(<<FunctionJson(n, JString("Int"), <<>>, ReturnZeroJson)>>) :
                    n \in {JString("f"), JNumber}}
            \cup {ProgramJson(<<FunctionJson(JString("main"), JString("Int"),
                                             <<JObject("name" :> JString("x"))>>, ReturnZeroJson)>>),
                  ProgramJson(<<JObject("name" :> JString("main"))>>),
                  ProgramJson(<<>>),
                  JObject("structs" :> JArray(<<>>)), JArray(<<>>), JNull,
                  Malformed}

(***************************************************************************)
(* State.                                                                  *)
(***************************************************************************)
VARIABLES
    tyPc,          \* typesEqual: "idle", "call" (before the call), "done"
    lhs,           \* typesEqual: its first argument
    rhs,           \* typesEqual: its second argument
    equal,         \* typesEqual: what it returned
    stPc,          \* Statement::check: "idle", "check", "loop" (in the loop
                   \* of Statements::check), "done"
    stmt,          \* Statement::check: the statement checked
    returnType,    \* Statement::check: its argument returnType
    inLoop,        \* Statement::check: its argument inLoop
    childIdx,      \* Statements::check: the child the loop is at
    doesReturn,    \* Statements::check: its local doesReturn
    result,        \* Statement::check: what it returned or threw
    pc,            \* Program::check: "idle", "names", "tables", "main",
                   \* "structs", "functions", "valid", "invalid"
    program,       \* Program::check: the program checked
    gamma,         \* Program::check: its local gamma
    delta,         \* Program::check: its local delta
    topLevelNames, \* Program::check: its local topLevelNames
    at,            \* Program::check: the struct or function the loop is at
    message,       \* main: the message of the exception caught
    exPc,          \* Expression::check: "idle", "check", "done"
    expression,    \* Expression::check: the expression checked
    exGamma,       \* Expression::check: its argument gamma
    exResult,      \* Expression::check: what it returned or threw
    mainPc,        \* main: "idle", "parse", "build", "check", "exit"
    document,      \* main: the content of the input file
    built,         \* main: what buildProgram returned or threw
    stdout,        \* main: what was written to std::cout
    stderr,        \* main: what was written to std::cerr
    exitCode       \* main: what it returns

typeVars == <<tyPc, lhs, rhs, equal>>

stmtVars == <<stPc, stmt, returnType, inLoop, childIdx, doesReturn, result>>

progVars == <<pc, program, gamma, delta, topLevelNames, at, message>>

exprVars == <<exPc, expression, exGamma, exResult>>

mainVars == <<mainPc, document, built, stdout, stderr, exitCode>>

vars == <<typeVars, stmtVars, progVars, exprVars, mainVars>>

TypesIdle ==
    /\ tyPc = "idle"
    /\ lhs = IntType
    /\ rhs = IntType
    /\ equal = FALSE

StmtIdle ==
    /\ stPc = "idle"
    /\ stmt = Break
    /\ returnType = IntType
    /\ inLoop = FALSE
    /\ childIdx = 1
    /\ doesReturn = FALSE
    /\ result = StmtOk(FALSE)

ProgIdle ==
    /\ pc = "idle"
    /\ program = [structs |-> <<>>, externs |-> <<>>, functions |-> <<>>]
    /\ gamma = EmptyMap
    /\ delta = EmptyMap
    /\ topLevelNames = {}
    /\ at = 1
    /\ message = NoError

ExprIdle ==
    /\ exPc = "idle"
    /\ expression = Number
    /\ exGamma = EmptyMap
    /\ exResult = TypeOk(IntType)

MainIdle ==
    LET \* Nothing built yet.
        NotBuilt == [kind |-> "none", value |-> NoType, what |-> ""]
    IN  /\ mainPc = "idle"
        /\ document = JNull
        /\ built = NotBuilt
        /\ stdout = <<>>
        /\ stderr = <<>>
        /\ exitCode = 0

(***************************************************************************)
(* The specification of typesEqual: any two types, then the call.         *)
(***************************************************************************)
TypesInit ==
    LET Types == UNION {TypesOfSize(n) : n \in 1..MaxTypeSize}
    IN  /\ tyPc = "call"
        /\ lhs \in Types
        /\ rhs \in Types
        /\ equal = FALSE
        /\ StmtIdle
        /\ ProgIdle
        /\ ExprIdle
        /\ MainIdle

CallTypesEqual ==
    /\ tyPc = "call"
    /\ equal' = typesEqual(lhs, rhs)
    /\ tyPc' = "done"
    /\ UNCHANGED <<lhs, rhs, stmtVars, progVars, exprVars, mainVars>>

TypesNext == CallTypesEqual

SpecTypes == TypesInit /\ [][TypesNext]_vars

(***************************************************************************)
(* The specification of Statement::check: any statement, return type and  *)
(* inLoop; Statements::check runs its loop a child at a time.             *)
(***************************************************************************)
StmtInit ==
    LET StmtReturnTypes == {IntType, PointerType(IntType)}
        LeafReturnTypes ==
            {IntType, NilType, StructType("S"), PointerType(IntType), ArrayType(IntType),
             FunctionType(<<>>, IntType)}
    IN  /\ stPc = "check"
        /\ \/ stmt \in StmtInputs /\ returnType \in StmtReturnTypes
           \/ stmt \in LeafInputs /\ returnType \in LeafReturnTypes
        /\ inLoop \in BOOLEAN
        /\ childIdx = 1
        /\ doesReturn = FALSE
        /\ result = StmtOk(FALSE)
        /\ TypesIdle
        /\ ProgIdle
        /\ ExprIdle
        /\ MainIdle

\* Statements::check, up to its loop.
StatementsEnter ==
    /\ stPc = "check"
    /\ stmt[1] = "Statements"
    /\ stPc' = "loop"
    /\ childIdx' = 1
    /\ doesReturn' = FALSE
    /\ UNCHANGED <<stmt, returnType, inLoop, result, typeVars, progVars, exprVars, mainVars>>

\* Statements::check, one iteration of its loop.
StatementsStep ==
    /\ stPc = "loop"
    /\ childIdx <= Len(stmt[2])
    /\ LET child == StatementCheck(stmt[2][childIdx], StmtGamma, StmtDelta, returnType, inLoop)
       IN  IF ~child.ok
               THEN /\ result' = child
                    /\ stPc' = "done"
                    /\ UNCHANGED <<childIdx, doesReturn>>
           ELSE /\ doesReturn' = StatementsUpdate(doesReturn, child.returns)
                /\ childIdx' = childIdx + 1
                /\ UNCHANGED <<result, stPc>>
    /\ UNCHANGED <<stmt, returnType, inLoop, typeVars, progVars, exprVars, mainVars>>

\* Statements::check, after its loop.
StatementsReturn ==
    /\ stPc = "loop"
    /\ childIdx > Len(stmt[2])
    /\ result' = StmtOk(doesReturn)
    /\ stPc' = "done"
    /\ UNCHANGED <<stmt, returnType, inLoop, childIdx, doesReturn, typeVars, progVars, exprVars, mainVars>>

\* The check of a statement of class kind, which check computes.
CheckOf(kind, check) ==
    /\ stPc = "check"
    /\ stmt[1] = kind
    /\ result' = check
    /\ stPc' = "done"
    /\ UNCHANGED <<stmt, returnType, inLoop, childIdx, doesReturn, typeVars, progVars, exprVars, mainVars>>

CheckAssignment ==
    CheckOf("Assignment", StatementCheck(stmt, StmtGamma, StmtDelta, returnType, inLoop))

CheckCallStatement ==
    CheckOf("CallStatement", StatementCheck(stmt, StmtGamma, StmtDelta, returnType, inLoop))

CheckIf ==
    CheckOf("If", StatementCheck(stmt, StmtGamma, StmtDelta, returnType, inLoop))

CheckWhile ==
    CheckOf("While", StatementCheck(stmt, StmtGamma, StmtDelta, returnType, inLoop))

CheckBreak ==
    CheckOf("Break", StatementCheck(stmt, StmtGamma, StmtDelta, returnType, inLoop))

CheckContinue ==
    CheckOf("Continue", StatementCheck(stmt, StmtGamma, StmtDelta, returnType, inLoop))

CheckReturn ==
    CheckOf("Return", StatementCheck(stmt, StmtGamma, StmtDelta, returnType, inLoop))

StmtNext ==
    \/ StatementsEnter
    \/ StatementsStep
    \/ StatementsReturn
    \/ CheckAssignment
    \/ CheckCallStatement
    \/ CheckIf
    \/ CheckWhile
    \/ CheckBreak
    \/ CheckContinue
    \/ CheckReturn

SpecStatements == StmtInit /\ [][StmtNext]_vars

(***************************************************************************)
(* The specification of Program::check, as main runs it on a program      *)
(* buildProgram made: the name loops, the tables, the search for main,    *)
(* then a struct or a function at a time.  An exception ends the check:   *)
(* main catches it.                                                        *)
(***************************************************************************)
ProgInit ==
    LET Programs ==
            NamePrograms \cup VarPrograms \cup BodyPrograms \cup FieldPrograms
                \cup MainPrograms \cup ScopePrograms \cup StructPrograms
                \cup OrderPrograms \cup FailPrograms \cup ShadowPrograms
    IN  /\ pc = "names"
        /\ program \in Programs
        /\ gamma = EmptyMap
        /\ delta = EmptyMap
        /\ topLevelNames = {}
        /\ at = 1
        /\ message = NoError
        /\ TypesIdle
        /\ StmtIdle
        /\ ExprIdle
        /\ MainIdle

\* What a step of Program::check that throws err, or nothing, leads to.
Throws(err, next) ==
    IF err # NoError
        THEN /\ pc' = "invalid"
             /\ message' = err
    ELSE /\ pc' = next
         /\ UNCHANGED message

CheckTopLevelNames ==
    /\ pc = "names"
    /\ Throws(TopLevelNamesCheck(program, topLevelNames), "tables")
    /\ UNCHANGED <<program, gamma, delta, topLevelNames, at, typeVars, stmtVars, exprVars, mainVars>>

ConstructTables ==
    /\ pc = "tables"
    /\ gamma' = constructGamma(program.externs, program.functions)
    /\ delta' = constructDelta(program.structs)
    /\ pc' = "main"
    /\ UNCHANGED <<program, topLevelNames, at, message, typeVars, stmtVars, exprVars, mainVars>>

FindMain ==
    /\ pc = "main"
    /\ Throws(IF MainFound(program) THEN NoError
              ELSE "no 'main' function with type '() -> int' exists", "structs")
    /\ UNCHANGED <<program, gamma, delta, topLevelNames, at, typeVars, stmtVars, exprVars, mainVars>>

\* CheckStruct, were the loop to go on past a struct that does not check.
CheckStructKeepsGoing ==
    /\ pc = "structs"
    /\ at <= Len(program.structs)
    /\ pc' = "structs"
    /\ message' = StructDefinitionCheck(program.structs[at], gamma, delta)
    /\ at' = at + 1
    /\ UNCHANGED <<program, gamma, delta, topLevelNames, typeVars, stmtVars, exprVars, mainVars>>

CheckStruct ==
    /\ pc = "structs"
    /\ at <= Len(program.structs)
    /\ Throws(StructDefinitionCheck(program.structs[at], gamma, delta), "structs")
    /\ at' = IF pc' = "invalid" THEN at ELSE at + 1
    /\ UNCHANGED <<program, gamma, delta, topLevelNames, typeVars, stmtVars, exprVars, mainVars>>

StructsDone ==
    /\ pc = "structs"
    /\ at > Len(program.structs)
    /\ pc' = "functions"
    /\ at' = 1
    /\ UNCHANGED <<program, gamma, delta, topLevelNames, message, typeVars, stmtVars, exprVars, mainVars>>

\* CheckFunction, were localGamma a reference to the gamma of Program::check.
CheckFunctionSharedGamma ==
    /\ pc = "functions"
    /\ at <= Len(program.functions)
    /\ Throws(FunctionDefinitionCheck(program.functions[at], gamma, delta), "functions")
    /\ at' = IF pc' = "invalid" THEN at ELSE at + 1
    /\ gamma' = LocalGamma(program.functions[at], gamma)
    /\ UNCHANGED <<program, delta, topLevelNames, typeVars, stmtVars, exprVars, mainVars>>

CheckFunction ==
    /\ pc = "functions"
    /\ at <= Len(program.functions)
    /\ Throws(FunctionDefinitionCheck(program.functions[at], gamma, delta), "functions")
    /\ at' = IF pc' = "invalid" THEN at ELSE at + 1
    /\ UNCHANGED <<program, gamma, delta, topLevelNames, typeVars, stmtVars, exprVars, mainVars>>

\* Program::check returns and main prints "valid".
Valid ==
    /\ pc = "functions"
    /\ at > Len(program.functions)
    /\ pc' = "valid"
    /\ UNCHANGED <<program, gamma, delta, topLevelNames, at, message, typeVars, stmtVars, exprVars, mainVars>>

ProgNext ==
    \/ CheckTopLevelNames
    \/ ConstructTables
    \/ FindMain
    \/ CheckStruct
    \/ StructsDone
    \/ CheckFunction
    \/ Valid

SpecProgram == ProgInit /\ [][ProgNext]_vars

(***************************************************************************)
(* The specification of Expression::check: any expression in any scope,    *)
(* then the check of its class.                                            *)
(***************************************************************************)
ExprInit ==
    /\ exPc = "check"
    /\ expression \in ExprInputs
    /\ exGamma \in ExprGammas
    /\ exResult = TypeOk(IntType)
    /\ TypesIdle
    /\ StmtIdle
    /\ ProgIdle
    /\ MainIdle

\* The check of an expression of class kind, which check computes.
ExprCheckOf(kind, check) ==
    /\ exPc = "check"
    /\ expression[1] = kind
    /\ exResult' = check
    /\ exPc' = "done"
    /\ UNCHANGED <<expression, exGamma, typeVars, stmtVars, progVars, mainVars>>

CheckValue ==
    ExprCheckOf("Value", ExpressionCheck(expression, exGamma, ExprDelta))

CheckNumber ==
    ExprCheckOf("Number", ExpressionCheck(expression, exGamma, ExprDelta))

CheckNil ==
    ExprCheckOf("Nil", ExpressionCheck(expression, exGamma, ExprDelta))

CheckSelect ==
    ExprCheckOf("Select", ExpressionCheck(expression, exGamma, ExprDelta))

CheckUnaryOperation ==
    ExprCheckOf("UnaryOperation", ExpressionCheck(expression, exGamma, ExprDelta))

CheckBinaryOperation ==
    ExprCheckOf("BinaryOperation", ExpressionCheck(expression, exGamma, ExprDelta))

CheckNewSingleton ==
    ExprCheckOf("NewSingleton", ExpressionCheck(expression, exGamma, ExprDelta))

CheckNewArray ==
    ExprCheckOf("NewArray", ExpressionCheck(expression, exGamma, ExprDelta))

CheckCallExpression ==
    ExprCheckOf("CallExpression", ExpressionCheck(expression, exGamma, ExprDelta))

ExprNext ==
    \/ CheckValue
    \/ CheckNumber
    \/ CheckNil
    \/ CheckSelect
    \/ CheckUnaryOperation
    \/ CheckBinaryOperation
    \/ CheckNewSingleton
    \/ CheckNewArray
    \/ CheckCallExpression

SpecExpressions == ExprInit /\ [][ExprNext]_vars

(***************************************************************************)
(* The specification of main, from the reading of the file on: any         *)
(* document, parsed, built and checked, with what each catch prints.       *)
(***************************************************************************)
MainInit ==
    LET \* Nothing built yet.
        NotBuilt == [kind |-> "none", value |-> NoType, what |-> ""]
    IN  /\ mainPc = "parse"
        /\ document \in Documents
        /\ built = NotBuilt
        /\ stdout = <<>>
        /\ stderr = <<>>
        /\ exitCode = 0
        /\ TypesIdle
        /\ StmtIdle
        /\ ProgIdle
        /\ ExprIdle

\* inputFile >> json, and the catch of a parse_error.
ParseInput ==
    LET \* A file that is no JSON text.
        Malformed == <<"malformed">>
    IN  /\ mainPc = "parse"
        /\ IF document = Malformed
            THEN /\ stderr' = <<"JSON parsing error ">>
                 /\ exitCode' = 1
                 /\ mainPc' = "exit"
            ELSE /\ mainPc' = "build"
                 /\ UNCHANGED <<stderr, exitCode>>
        /\ UNCHANGED <<document, built, stdout, typeVars, stmtVars, progVars, exprVars>>

\* buildProgram(json), and the catch of what it throws: a runtime_error by
\* the first handler, any other exception by the second.
BuildProgram ==
    /\ mainPc = "build"
    /\ built' = buildProgram(document)
    /\ mainPc' = IF built'.kind = "ok" THEN "check" ELSE "exit"
    /\ stdout' = IF built'.kind = "runtime_error" THEN <<"invalid: ", built'.what>>
                 ELSE stdout
    /\ stderr' = IF built'.kind = "json_exception" THEN <<"Error: ", built'.what>>
                 ELSE stderr
    /\ UNCHANGED <<document, exitCode, typeVars, stmtVars, progVars, exprVars>>

\* program->check(), the print of "valid" and the catch of what it throws.
CheckProgram ==
    /\ mainPc = "check"
    /\ stdout' = IF ProgramCheck(built.value) = NoError THEN <<"valid">>
                 ELSE <<"invalid: ", ProgramCheck(built.value)>>
    /\ mainPc' = "exit"
    /\ UNCHANGED <<document, built, stderr, exitCode, typeVars, stmtVars, progVars, exprVars>>

MainNext ==
    \/ ParseInput
    \/ BuildProgram
    \/ CheckProgram

SpecMain == MainInit /\ [][MainNext]_vars

(***************************************************************************)
(* Properties of typesEqual (under SpecTypes).                             *)
(***************************************************************************)
NilCompatible(t) == getTypeKind(t) \in {"NIL", "POINTER", "ARRAY"}

\* C1: typesEqual is reflexive and symmetric, and Nil equals exactly Nil,
\* every Pointer and every Array, in both argument orders (and so is unequal
\* to Int, Struct and Function).
C1_ReflexiveSymmetricNil ==
    tyPc = "done" =>
        /\ equal = typesEqual(rhs, lhs)
        /\ (lhs = rhs => equal)
        /\ (getTypeKind(lhs) = "NIL" => (equal <=> NilCompatible(rhs)))
        /\ (getTypeKind(rhs) = "NIL" => (equal <=> NilCompatible(lhs)))

\* C1: Nil has been compared with an array, and an array with Nil.
C1_Witness ==
    /\ tyPc = "done"
    /\ lhs = NilType
    /\ rhs = ArrayType(IntType)
    /\ equal
    /\ typesEqual(rhs, lhs)

\* C2 as stated: two types neither of which is the Nil variant are equal
\* exactly when they have the same variant and identical structure.
C2_IdenticalStructure ==
    (tyPc = "done" /\ getTypeKind(lhs) # "NIL" /\ getTypeKind(rhs) # "NIL") =>
        (equal <=> lhs = rhs)

\* The components of two types of the same variant are pairwise typesEqual.
ComponentsEqual(a, b) ==
    CASE getTypeKind(a) = "INT" -> TRUE
      [] getTypeKind(a) = "STRUCT" -> a[2] = b[2]
      [] getTypeKind(a) \in {"ARRAY", "POINTER"} -> typesEqual(a[2], b[2])
      [] getTypeKind(a) = "FUNCTION" ->
            /\ Len(a[2]) = Len(b[2])
            /\ \A i \in 1..Len(a[2]) : typesEqual(a[2][i], b[2][i])
            /\ typesEqual(a[3], b[3])

\* C2, amended: two types neither of which is the Nil variant are equal
\* exactly when they have the same variant and components that are in turn
\* typesEqual (Struct: the same name; Array and Pointer: the element types;
\* Function: as many parameters, the parameter types pairwise and the return
\* types), so that a Nil component matches a Nil, Pointer or Array component;
\* where Nil occurs nowhere in either type, this is identical structure.
C2_SameVariantEqualComponents ==
    (tyPc = "done" /\ getTypeKind(lhs) # "NIL" /\ getTypeKind(rhs) # "NIL") =>
        /\ equal <=> (getTypeKind(lhs) = getTypeKind(rhs) /\ ComponentsEqual(lhs, rhs))
        /\ (~HasNil(lhs) /\ ~HasNil(rhs)) => (equal <=> lhs = rhs)
        /\ lhs = rhs => equal

\* C2: two pointers of different structure, one of them to Nil, were found
\* equal.
C2_Witness ==
    /\ tyPc = "done"
    /\ lhs = PointerType(NilType)
    /\ rhs = PointerType(PointerType(IntType))
    /\ equal

(***************************************************************************)
(* The control paths through a statement: how a path can leave it.  An if *)
(* takes either branch, a while runs zero or more times, a break or a     *)
(* continue leaves for the enclosing loop, and a sequence goes on to its  *)
(* next child only when the one before can fall through.                  *)
(***************************************************************************)
RECURSIVE Outcomes(_)
RECURSIVE SeqOutcomes(_, _)

SeqOutcomes(statements, k) ==
    IF k > Len(statements) THEN {"fall"}
    ELSE (Outcomes(statements[k]) \ {"fall"})
         \cup (IF "fall" \in Outcomes(statements[k]) THEN SeqOutcomes(statements, k + 1)
               ELSE {})

Outcomes(s) ==
    CASE s[1] = "Return" -> {"return"}
      [] s[1] = "Break" -> {"break"}
      [] s[1] = "Continue" -> {"continue"}
      [] s[1] \in {"Assignment", "CallStatement"} -> {"fall"}
      [] s[1] = "If" ->
            Outcomes(s[3]) \cup (IF s[4] = NoType THEN {"fall"} ELSE Outcomes(s[4]))
      [] s[1] = "While" -> {"fall"} \cup (Outcomes(s[3]) \cap {"return"})
      [] s[1] = "Statements" -> SeqOutcomes(s[2], 1)

\* Every control path through s ends at a return.
AllPathsReturn(s) == Outcomes(s) = {"return"}

\* The message of the first break or continue of s, in the order of the
\* check, that no while of s encloses; "" when there is none.
RECURSIVE FirstBareJump(_)
RECURSIVE FirstBareJumpFrom(_, _)

FirstBareJumpFrom(statements, k) ==
    IF k > Len(statements) THEN NoError
    ELSE IF FirstBareJump(statements[k]) # NoError THEN FirstBareJump(statements[k])
    ELSE FirstBareJumpFrom(statements, k + 1)

FirstBareJump(s) ==
    CASE s[1] = "Break" -> "break outside loop"
      [] s[1] = "Continue" -> "continue outside loop"
      [] s[1] = "If" ->
            IF FirstBareJump(s[3]) # NoError THEN FirstBareJump(s[3])
            ELSE IF s[4] # NoType THEN FirstBareJump(s[4])
            ELSE NoError
      [] s[1] = "Statements" -> FirstBareJumpFrom(s[2], 1)
      [] OTHER -> NoError

JumpMessages == {"break outside loop", "continue outside loop"}

Functions == {program.functions[i] : i \in 1..Len(program.functions)}

(***************************************************************************)
(* Properties of Program::check on the bodies of functions (under         *)
(* SpecProgram).                                                           *)
(***************************************************************************)
\* C3: when Program::check succeeds, every control path through the body of
\* every function of the program ends at a return; a program with a function
\* whose body has a path that falls off its end is never found valid.
C3_ValidMeansAllPathsReturn ==
    /\ pc = "valid" => \A f \in Functions : AllPathsReturn(f.body)
    /\ (\E f \in Functions : "fall" \in Outcomes(f.body)) => pc # "valid"

\* C3: a program was found valid whose main ends with an if that returns in
\* both branches.
C3_Witness ==
    /\ pc = "valid"
    /\ \E f \in Functions :
        f.body = Statements(<<If(Number, Return(Number), Return(Number))>>)

(***************************************************************************)
(* Properties of Statement::check (under SpecStatements).                  *)
(***************************************************************************)
\* The check of a child of the statement checked, in its scope.
SubCheck(s, loop) == StatementCheck(s, StmtGamma, StmtDelta, returnType, loop)

\* The expression e types Int in the scope of the statement checked.
TypesInt(e) ==
    /\ ExpressionCheck(e, StmtGamma, StmtDelta).ok
    /\ getTypeKind(ExpressionCheck(e, StmtGamma, StmtDelta).type) = "INT"

\* C4 as stated: for every statement and every inLoop, when the check returns
\* true every control path through the statement reaches a return.
C4_TrueMeansAllPathsReturn ==
    (stPc = "done" /\ result.ok /\ result.returns) => AllPathsReturn(stmt)

\* C5: the check of a while never returns true: it fails (with the message
\* of the guard) when its guard does not type Int, and returns false when the
\* guard types Int and the body checks, also when the body returns true.
C5_WhileNeverReturns ==
    (stPc = "done" /\ stmt[1] = "While") =>
        /\ ~(result.ok /\ result.returns)
        /\ ~TypesInt(stmt[2]) => (~result.ok /\ result.err = "non-int type for while guard")
        /\ result.ok => TypesInt(stmt[2])
        /\ (TypesInt(stmt[2]) /\ SubCheck(stmt[3], TRUE).ok) => result = StmtOk(FALSE)

\* C5: a while whose body returns true was checked, and returned false.
C5_Witness ==
    /\ stPc = "done"
    /\ stmt = While(Number, Return(Number))
    /\ returnType = IntType
    /\ SubCheck(stmt[3], TRUE) = StmtOk(TRUE)
    /\ result = StmtOk(FALSE)

\* C6: the check of an if that does not fail returns true exactly when the if
\* has an else and the checks of both branches return true; for an if with no
\* else it returns false, also when the check of its then-branch returns true.
C6_IfReturnsWhenBothBranchesDo ==
    (stPc = "done" /\ stmt[1] = "If" /\ result.ok) =>
        /\ result.returns <=>
            /\ stmt[4] # NoType
            /\ SubCheck(stmt[3], inLoop).returns
            /\ SubCheck(stmt[4], inLoop).returns
        /\ stmt[4] = NoType => ~result.returns

\* C6: an if with no else whose then-branch returns was checked, and returned
\* false.
C6_Witness ==
    /\ stPc = "done"
    /\ stmt = If(Number, Return(Number), NoType)
    /\ returnType = IntType
    /\ SubCheck(stmt[3], inLoop) = StmtOk(TRUE)
    /\ result = StmtOk(FALSE)

\* C7: a break or a continue is accepted exactly when a while of the same
\* function body encloses it, through any depth of sequences and ifs.  A
\* function whose body checks without an error (the program is found valid,
\* or fails on the result of that body) has no break or continue outside a
\* while; and a program that fails with 'break outside loop' or 'continue
\* outside loop' fails with the message of the first break or continue
\* outside a while of the function checked.
C7_JumpsOnlyInLoops ==
    /\ pc = "valid" => \A f \in Functions : FirstBareJump(f.body) = NoError
    /\ (pc = "invalid" /\ message = "function may not execute a return") =>
            FirstBareJump(program.functions[at].body) = NoError
    /\ (pc = "invalid" /\ message \in JumpMessages) =>
            FirstBareJump(program.functions[at].body) = message

\* C7: a program was found valid whose main has a break in an if in a while.
C7_Witness ==
    /\ pc = "valid"
    /\ \E f \in Functions :
        f.body = Statements(<<While(Number, If(Number, Break, NoType)), Return(Number)>>)

\* The children of the sequence checked that come before child k.
Before(k) == 1..(k - 1)

\* C8: the loop of Statements::check visits every child in order: when it is
\* at child k every child before k has checked without an error, and
\* doesReturn is true exactly when one of them returned true (so that once
\* true it stays true); the check fails with the error of the first child
\* that fails, also after a child that returned true, and otherwise returns
\* whether some child returned true.
C8_SequenceReturnsWhenSomeChildDoes ==
    /\ (stPc = "loop" /\ stmt[1] = "Statements") =>
        /\ childIdx \in 1..(Len(stmt[2]) + 1)
        /\ \A j \in Before(childIdx) : SubCheck(stmt[2][j], inLoop).ok
        /\ doesReturn <=> \E j \in Before(childIdx) : SubCheck(stmt[2][j], inLoop).returns
    /\ (stPc = "done" /\ stmt[1] = "Statements") =>
        IF \E j \in 1..Len(stmt[2]) : ~SubCheck(stmt[2][j], inLoop).ok
            THEN /\ ~result.ok
                 /\ \E j \in 1..Len(stmt[2]) :
                        /\ result = SubCheck(stmt[2][j], inLoop)
                        /\ \A i \in Before(j) : SubCheck(stmt[2][i], inLoop).ok
        ELSE result = StmtOk(\E j \in 1..Len(stmt[2]) : SubCheck(stmt[2][j], inLoop).returns)

\* C8: a sequence failed on a child that follows one that returned true.
C8_Witness ==
    /\ stPc = "done"
    /\ stmt = Statements(<<Return(Number), Return(NoType)>>)
    /\ returnType = IntType
    /\ doesReturn
    /\ ~result.ok

(***************************************************************************)
(* Properties of Program::check on names (under SpecProgram).             *)
(***************************************************************************)
\* The names of the top-level declarations of p, without the functions
\* named main.
TopLevelNames(p) ==
    [i \in 1..Len(p.structs) |-> p.structs[i].name]
        \o [i \in 1..Len(p.externs) |-> p.externs[i].name]
        \o SelectSeq([i \in 1..Len(p.functions) |-> p.functions[i].name],
                     LAMBDA n : n # "main")

\* The names of the parameters and locals of f.
VariableNames(f) ==
    [i \in 1..Len(f.params) |-> f.params[i].name]
        \o [i \in 1..Len(f.locals) |-> f.locals[i].name]

\* Two elements of the sequence names are the same.
HasDuplicate(names) ==
    \E i, j \in 1..Len(names) : i # j /\ names[i] = names[j]

\* C9 as stated: a program with two top-level declarations of the same name
\* (functions named main aside) fails: Program::check never returns and main
\* never prints valid.
C9_DuplicateTopLevelNameFails ==
    HasDuplicate(TopLevelNames(program)) => pc # "valid"

\* C10 as stated: a program with a function two of whose parameters and
\* locals have the same name fails.
C10_DuplicateVariableNameFails ==
    (\E f \in Functions : HasDuplicate(VariableNames(f))) => pc # "valid"

(***************************************************************************)
(* Properties of StructDefinition::check (under SpecProgram).              *)
(***************************************************************************)
Structs == {program.structs[i] : i \in 1..Len(program.structs)}

\* The names of the fields of the struct s.
FieldNamesOf(s) == [i \in 1..Len(s.fields) |-> s.fields[i].name]

\* C11 as stated: a program with a struct two of whose fields have the same
\* name fails.
C11_DuplicateFieldNameFails ==
    (\E s \in Structs : HasDuplicate(FieldNamesOf(s))) => pc # "valid"

\* The struct s has a field, and its fields are all Int, Pointer or Array.
FieldsAccepted(s) ==
    /\ Len(s.fields) > 0
    /\ \A i \in 1..Len(s.fields) :
        getTypeKind(s.fields[i].type) \in {"INT", "POINTER", "ARRAY"}

StructMessages ==
    {"empty struct", "invalid type for struct field", "Duplicate field name in struct"}

\* C12: the check of a struct fails for a struct with no fields and for a
\* struct with a field of type Nil, Struct or Function, and accepts a struct
\* with fields that are all Int, Pointer or Array: every struct the loop of
\* Program::check has passed is of the latter kind, and a program that fails
\* with a message of StructDefinition::check fails on a struct that is empty
\* ('empty struct') or has such a field ('invalid type for struct field').
C12_StructFieldsChecked ==
    /\ pc \in {"functions", "valid"} => \A s \in Structs : FieldsAccepted(s)
    /\ pc = "structs" => \A j \in 1..(at - 1) : FieldsAccepted(program.structs[j])
    /\ (pc = "invalid" /\ message \in StructMessages) =>
        /\ ~FieldsAccepted(program.structs[at])
        /\ message = (IF Len(program.structs[at].fields) = 0 THEN "empty struct"
                      ELSE "invalid type for struct field")

\* C12: a struct with a pointer-to-struct field and an array field was
\* accepted.
C12_Witness ==
    /\ pc = "valid"
    /\ \E s \in Structs :
        s.fields = <<Declaration("v", PointerType(StructType("S"))),
                     Declaration("w", ArrayType(IntType))>>

(***************************************************************************)
(* Properties of Program::check on main and the scope tables (under       *)
(* SpecProgram).                                                           *)
(***************************************************************************)
\* The functions of the program that are named main.
Mains == {i \in 1..Len(program.functions) : program.functions[i].name = "main"}

\* C13 as stated: Program::check succeeds only if exactly one function named
\* main exists, and it has no parameters and return type Int.
C13_ExactlyOneMain ==
    pc = "valid" =>
        /\ Cardinality(Mains) = 1
        /\ \A i \in Mains :
            /\ Len(program.functions[i].params) = 0
            /\ program.functions[i].returnType = IntType

\* C16 as stated: once constructGamma has run, every extern name is bound to
\* the Function type of the extern, every function not named main to the
\* pointer to its Function type, and main is bound only if an extern is
\* named main.
C16_GammaBindsExternsAndFunctions ==
    pc \notin {"names", "tables"} =>
        /\ \A i \in 1..Len(program.externs) :
            /\ program.externs[i].name \in DOMAIN gamma
            /\ gamma[program.externs[i].name] =
                FunctionType(program.externs[i].paramTypes, program.externs[i].returnType)
        /\ \A f \in Functions :
            f.name # "main" =>
                /\ f.name \in DOMAIN gamma
                /\ gamma[f.name] = PointerType(FunctionType(ParamTypes(f), f.returnType))
        /\ "main" \in DOMAIN gamma =>
            \E i \in 1..Len(program.externs) : program.externs[i].name = "main"

\* The identifiers that occur in an expression, a place, a call and a
\* statement.
RECURSIVE ExprIds(_)
RECURSIVE StmtIds(_)

PlaceIds(p) ==
    CASE p[1] = "Identifier" -> {p[2]}
      [] p[1] = "ArrayAccess" -> ExprIds(p[2]) \cup ExprIds(p[3])
      [] OTHER -> ExprIds(p[2])

CallIds(c) == ExprIds(c[2]) \cup UNION {ExprIds(c[3][k]) : k \in 1..Len(c[3])}

ExprIds(e) ==
    CASE e[1] = "Value" -> PlaceIds(e[2])
      [] e[1] \in {"Number", "Nil", "NewSingleton"} -> {}
      [] e[1] = "Select" -> ExprIds(e[2]) \cup ExprIds(e[3]) \cup ExprIds(e[4])
      [] e[1] = "UnaryOperation" -> ExprIds(e[3])
      [] e[1] = "BinaryOperation" -> ExprIds(e[3]) \cup ExprIds(e[4])
      [] e[1] = "NewArray" -> ExprIds(e[3])
      [] e[1] = "CallExpression" -> CallIds(e[2])

StmtIds(s) ==
    CASE s[1] = "Statements" -> UNION {StmtIds(s[2][k]) : k \in 1..Len(s[2])}
      [] s[1] = "Assignment" -> PlaceIds(s[2]) \cup ExprIds(s[3])
      [] s[1] = "CallStatement" -> CallIds(s[2])
      [] s[1] = "If" ->
            ExprIds(s[2]) \cup StmtIds(s[3])
                \cup (IF s[4] = NoType THEN {} ELSE StmtIds(s[4]))
      [] s[1] = "While" -> ExprIds(s[2]) \cup StmtIds(s[3])
      [] s[1] = "Return" -> IF s[2] = NoType THEN {} ELSE ExprIds(s[2])
      [] OTHER -> {}

\* The names a function can use: those of the baseline gamma of the program
\* and those of its own parameters and locals.
OwnScope(f) ==
    DOMAIN constructGamma(program.externs, program.functions)
        \cup {VariableNames(f)[i] : i \in 1..Len(VariableNames(f))}

\* C17: the checks of the functions leave the gamma and delta of
\* Program::check as constructGamma and constructDelta made them, and every
\* body is checked in that gamma extended with the function's own parameters
\* and locals only: in a program found valid every function uses only names
\* of the baseline or of its own, and a program that fails with an identifier
\* that does not exist fails in a function that uses a name that is neither,
\* whatever the functions checked before it declare.
C17_FunctionsCheckedIndependently ==
    /\ pc \notin {"names", "tables"} =>
        /\ gamma = constructGamma(program.externs, program.functions)
        /\ delta = constructDelta(program.structs)
    /\ pc = "valid" => \A f \in Functions : StmtIds(f.body) \subseteq OwnScope(f)
    /\ (pc = "invalid" /\ message = "id does not exist in this scope") =>
        ~(StmtIds(program.functions[at].body) \subseteq OwnScope(program.functions[at]))

\* C17: after the check of f, which has a parameter x, the check of g, which
\* returns x and declares only y, failed.
C17_Witness ==
    /\ pc = "invalid"
    /\ message = "id does not exist in this scope"
    /\ at = 2
    /\ program.functions[1] =
        ReturningX("f", <<Declaration("x", IntType)>>, <<>>)
    /\ program.functions[2] =
        ReturningX("g", <<>>, <<Declaration("y", IntType)>>)

(***************************************************************************)
(* Properties of Expression::check (under SpecExpressions).                *)
(***************************************************************************)
ExprDone(kind) == exPc = "done" /\ expression[1] = kind

\* The check of a child of the expression checked, in the same scope.
ChildType(e) == ExpressionCheck(e, exGamma, ExprDelta)

CalleeOf(e) == e[2][2]

ArgsOf(e) == e[2][3]

CallMain == Value(Identifier("main"))

\* C14: a call whose callee is the identifier main (wrapped in a Value, as
\* every callee that is an identifier is) fails with "trying to call
\* 'main'", whatever gamma binds main to (nothing, an extern's type, a
\* function's, a variable's) and whatever the arguments are, ill-typed ones
\* included: the test comes before the callee or an argument is checked.
C14_CallingMainFails ==
    (ExprDone("CallExpression") /\ CalleeOf(expression) = CallMain) =>
        exResult = TypeErr("trying to call 'main'")

C14_Witness ==
    /\ exPc = "done"
    /\ expression = CallExpression(FunctionCall(CallMain, <<Value(Identifier("u"))>>))
    /\ "main" \notin DOMAIN exGamma
    /\ exResult = TypeErr("trying to call 'main'")

\* The function type a callee of type t is called at, if it has one.
CalledType(t) ==
    IF getTypeKind(t) = "FUNCTION" THEN t
    ELSE IF getTypeKind(t) = "POINTER" /\ getTypeKind(t[2]) = "FUNCTION" THEN t[2]
    ELSE NoType

\* C15: a call of a callee other than main succeeds exactly when the callee
\* has a type that is Function or Pointer(Function), there are as many
\* arguments as parameters, and every argument has a type typesEqual to its
\* parameter's; its type is then the return type of the function type.  When
\* the callee and the count are right and some arguments are not, the error
\* is that of the lowest-index such argument: its own error if it does not
\* check, else the mismatch of its type with its parameter's.
C15_CallChecksCalleeCountArguments ==
    (ExprDone("CallExpression") /\ CalleeOf(expression) # CallMain) =>
        LET args == ArgsOf(expression)
            calleeType == ChildType(CalleeOf(expression))
            function == IF calleeType.ok THEN CalledType(calleeType.type) ELSE NoType
            callable == function # NoType /\ Len(args) = Len(function[2])
            mismatching ==
                {k \in 1..Len(args) :
                    \/ ~ChildType(args[k]).ok
                    \/ ~typesEqual(ChildType(args[k]).type, function[2][k])}
        IN  /\ exResult.ok <=> (callable /\ mismatching = {})
            /\ exResult.ok => exResult.type = function[3]
            /\ (callable /\ mismatching # {}) =>
                    \E k \in mismatching :
                        /\ \A j \in mismatching : k <= j
                        /\ exResult =
                            IF ~ChildType(args[k]).ok THEN ChildType(args[k])
                            ELSE TypeErr("incompatible argument type "
                                         \o toStringPretty(ChildType(args[k]).type)
                                         \o " vs parameter type "
                                         \o toStringPretty(function[2][k])
                                         \o " in call")

\* f(nil, 0) where f takes (int, &int): both arguments mismatch, the first
\* is reported.
C15_Witness ==
    /\ exPc = "done"
    /\ expression = CallExpression(FunctionCall(Value(Identifier("f")), <<Nil, Number>>))
    /\ exResult = TypeErr("incompatible argument type nil vs parameter type int in call")

\* C18: a select succeeds exactly when its guard has type Int and its two
\* branches have types that are typesEqual; its type is then that of the true
\* branch unless that is Nil, and that of the false branch if it is, so it is
\* Nil only when both branches are.
C18_SelectTypesAsNonNilBranch ==
    ExprDone("Select") =>
        LET guardType == ChildType(expression[2])
            ttCaseType == ChildType(expression[3])
            ffCaseType == ChildType(expression[4])
        IN  /\ exResult.ok <=>
                    /\ guardType.ok /\ guardType.type = IntType
                    /\ ttCaseType.ok /\ ffCaseType.ok
                    /\ typesEqual(ttCaseType.type, ffCaseType.type)
            /\ exResult.ok =>
                    /\ exResult.type =
                            IF ttCaseType.type # NilType THEN ttCaseType.type
                            ELSE ffCaseType.type
                    /\ (exResult.type = NilType) =>
                            (ttCaseType.type = NilType /\ ffCaseType.type = NilType)

C18_Witness ==
    /\ exPc = "done"
    /\ expression = Select(Number, Nil, Value(Identifier("p")))
    /\ exResult = TypeOk(PointerType(IntType))

\* C19: a binary operation that succeeds has type Int; Eq and NotEq succeed
\* exactly when the operands have types that are typesEqual and neither is a
\* Struct or a Function; every other operator succeeds exactly when both
\* operands have the type Int itself.
C19_BinaryOperationTypes ==
    ExprDone("BinaryOperation") =>
        LET lhsType == ChildType(expression[3])
            rhsType == ChildType(expression[4])
            typed == lhsType.ok /\ rhsType.ok
        IN  /\ exResult.ok => exResult.type = IntType
            /\ expression[2] \in {"EQ", "NOT_EQ"} =>
                    (exResult.ok <=>
                        /\ typed
                        /\ typesEqual(lhsType.type, rhsType.type)
                        /\ getTypeKind(lhsType.type) \notin {"STRUCT", "FUNCTION"}
                        /\ getTypeKind(rhsType.type) \notin {"STRUCT", "FUNCTION"})
            /\ expression[2] \notin {"EQ", "NOT_EQ"} =>
                    (exResult.ok <=>
                        typed /\ lhsType.type = IntType /\ rhsType.type = IntType)

C19_Witness ==
    /\ exPc = "done"
    /\ expression = BinaryOperation("EQ", Value(Identifier("p")), Nil)
    /\ exResult = TypeOk(IntType)

\* C20: NewArray(type, size) succeeds exactly when size has type Int and
\* type is not Nil, Function or Struct, and its type is then Array(type);
\* NewSingleton(type) succeeds exactly when type is not Nil or Function, and
\* its type is then Pointer(type).
C20_AllocationTypes ==
    /\ ExprDone("NewArray") =>
            LET sizeType == ChildType(expression[3])
            IN  /\ exResult.ok <=>
                        /\ sizeType.ok /\ sizeType.type = IntType
                        /\ getTypeKind(expression[2]) \notin {"NIL", "FUNCTION", "STRUCT"}
                /\ exResult.ok => exResult.type = ArrayType(expression[2])
    /\ ExprDone("NewSingleton") =>
            /\ exResult.ok <=> getTypeKind(expression[2]) \notin {"NIL", "FUNCTION"}
            /\ exResult.ok => exResult.type = PointerType(expression[2])

\* An array of structs, with a size of type Int, is refused.
C20_Witness ==
    /\ exPc = "done"
    /\ expression = NewArray(StructType("S"), Number)
    /\ ~exResult.ok

(***************************************************************************)
(* Properties of Assignment::check and Return::check (under               *)
(* SpecStatements).                                                        *)
(***************************************************************************)
StmtDone(kind) == stPc = "done" /\ stmt[1] = kind

\* C21: an assignment succeeds exactly when its place and its expression
\* have types, the place's is not a Struct, a Function or Nil, and the two
\* are typesEqual (so nil goes into a Pointer or an Array, never into an
\* Int); when it succeeds it returns false.
C21_AssignmentTypes ==
    StmtDone("Assignment") =>
        LET lhsType == PlaceCheck(stmt[2], StmtGamma, StmtDelta)
            rhsType == ExpressionCheck(stmt[3], StmtGamma, StmtDelta)
        IN  /\ result.ok <=>
                    /\ lhsType.ok /\ rhsType.ok
                    /\ getTypeKind(lhsType.type) \notin {"STRUCT", "FUNCTION", "NIL"}
                    /\ typesEqual(lhsType.type, rhsType.type)
            /\ result.ok => ~result.returns
            /\ (lhsType.ok /\ lhsType.type = IntType /\ stmt[3] = Nil) => ~result.ok

\* p = nil, with p a pointer.
C21_Witness ==
    /\ stPc = "done"
    /\ stmt = Assignment(Identifier("p"), Nil)
    /\ result = StmtOk(FALSE)

\* C22: a return with an expression succeeds exactly when the expression
\* has a type that is typesEqual to the declared return type, and then
\* reports that it returns, in a loop or not.
C22_ReturnWithExpression ==
    (StmtDone("Return") /\ stmt[2] # NoType) =>
        LET expressionType == ExpressionCheck(stmt[2], StmtGamma, StmtDelta)
        IN  /\ result.ok <=>
                    expressionType.ok /\ typesEqual(expressionType.type, returnType)
            /\ result.ok => result.returns
            /\ stmt[2] = Nil =>
                    (result.ok <=> getTypeKind(returnType) \in {"NIL", "POINTER", "ARRAY"})

\* return nil in a loop of a function that returns an array.
C22_Witness ==
    /\ stPc = "done"
    /\ stmt = Return(Nil)
    /\ returnType = ArrayType(IntType)
    /\ inLoop
    /\ result = StmtOk(TRUE)

\* C23: a return without an expression fails whatever the declared return
\* type is: with "missing return expression for non-int function type" when
\* it is not Int, with "return statement requires an expression in this
\* function" when it is.
C23_BareReturnFails ==
    (StmtDone("Return") /\ stmt[2] = NoType) =>
        /\ ~result.ok
        /\ ~result.returns
        /\ result.err =
                IF returnType # IntType
                    THEN "missing return expression for non-int function type"
                ELSE "return statement requires an expression in this function"

C23_Witness ==
    /\ stPc = "done"
    /\ stmt = Return(NoType)
    /\ returnType = IntType
    /\ result = StmtErr("return statement requires an expression in this function")

(***************************************************************************)
(* Properties of Dereference::check and FieldAccess::check (under          *)
(* SpecExpressions).                                                       *)
(***************************************************************************)
PlaceDone(kind) == ExprDone("Value") /\ expression[2][1] = kind

\* C24: a dereference succeeds exactly when its operand has a type
\* Pointer(T), and its type is then T; an operand that has another type (Int,
\* Nil, Array, Struct, Function) fails with the non-pointer dereference error.
C24_DereferenceNeedsPointer ==
    PlaceDone("Dereference") =>
        LET pointeeType == ChildType(expression[2][2])
        IN  /\ exResult.ok <=>
                    pointeeType.ok /\ getTypeKind(pointeeType.type) = "POINTER"
            /\ exResult.ok => PointerType(exResult.type) = pointeeType.type
            /\ (pointeeType.ok /\ getTypeKind(pointeeType.type) # "POINTER") =>
                    exResult = TypeErr("non-pointer type for dereference")

\* *a, with a an array.
C24_Witness ==
    /\ exPc = "done"
    /\ expression = Value(Dereference(Value(Identifier("a"))))
    /\ exResult = TypeErr("non-pointer type for dereference")

\* The level at which the field access place fails in the scope g: 0 when it
\* does not, 1 when its base is not a pointer, 2 when that points to no
\* struct, 3 when delta has no such struct, 4 when the struct has no such
\* field; 5 when the base itself does not check.
FieldAccessLevel(place, g) ==
    LET baseType == ExpressionCheck(place[2], g, ExprDelta)
    IN  IF ~baseType.ok THEN 5
        ELSE IF getTypeKind(baseType.type) # "POINTER" THEN 1
        ELSE IF getTypeKind(baseType.type[2]) # "STRUCT" THEN 2
        ELSE IF baseType.type[2][2] \notin DOMAIN ExprDelta THEN 3
        ELSE IF place[3] \notin DOMAIN ExprDelta[baseType.type[2][2]] THEN 4
        ELSE 0

\* C25: a field access whose base is a pointer to a struct of delta that has
\* the field has the declared type of the field; one that fails at one of the
\* four levels has a message that the same access does not have when, in
\* another scope, it fails at another level.
C25_FieldAccessLevelsDistinct ==
    PlaceDone("FieldAccess") =>
        LET level == FieldAccessLevel(expression[2], exGamma)
        IN  /\ level = 0 =>
                    exResult = TypeOk(ExprDelta[ChildType(expression[2][2]).type[2][2]]
                                               [expression[2][3]])
            /\ level \in 1..4 =>
                    /\ ~exResult.ok
                    /\ \A g \in ExprGammas :
                          (FieldAccessLevel(expression[2], g) \in (1..4) \ {level}) =>
                              ExpressionCheck(expression, g, ExprDelta).err # exResult.err

(***************************************************************************)
(* Properties of main (under SpecMain).                                    *)
(***************************************************************************)
\* C26: a document that cannot be built into a Program is never reported on
\* standard output as "invalid: <message>", which is what a Program that
\* does not check is reported as.
C26_DecodeFailureNotInvalid ==
    (mainPc = "exit" /\ built.kind \in {"runtime_error", "json_exception"}) =>
        (stdout = <<>> \/ Head(stdout) # "invalid: ")

(***************************************************************************)
(* Properties of Program::check as a whole (under SpecProgram).            *)
(***************************************************************************)
\* The element types of the arrays that an expression, a statement
\* allocates.
RECURSIVE ExprArrays(_)
RECURSIVE StmtArrays(_)

PlaceArrays(p) ==
    CASE p[1] = "Identifier" -> {}
      [] p[1] = "ArrayAccess" -> ExprArrays(p[2]) \cup ExprArrays(p[3])
      [] OTHER -> ExprArrays(p[2])

CallArrays(c) == ExprArrays(c[2]) \cup UNION {ExprArrays(c[3][k]) : k \in 1..Len(c[3])}

ExprArrays(e) ==
    CASE e[1] = "Value" -> PlaceArrays(e[2])
      [] e[1] \in {"Number", "Nil", "NewSingleton"} -> {}
      [] e[1] = "Select" -> ExprArrays(e[2]) \cup ExprArrays(e[3]) \cup ExprArrays(e[4])
      [] e[1] = "UnaryOperation" -> ExprArrays(e[3])
      [] e[1] = "BinaryOperation" -> ExprArrays(e[3]) \cup ExprArrays(e[4])
      [] e[1] = "NewArray" -> {e[2]} \cup ExprArrays(e[3])
      [] e[1] = "CallExpression" -> CallArrays(e[2])

StmtArrays(s) ==
    CASE s[1] = "Statements" -> UNION {StmtArrays(s[2][k]) : k \in 1..Len(s[2])}
      [] s[1] = "Assignment" -> PlaceArrays(s[2]) \cup ExprArrays(s[3])
      [] s[1] = "CallStatement" -> CallArrays(s[2])
      [] s[1] = "If" ->
            ExprArrays(s[2]) \cup StmtArrays(s[3])
                \cup (IF s[4] = NoType THEN {} ELSE StmtArrays(s[4]))
      [] s[1] = "While" -> ExprArrays(s[2]) \cup StmtArrays(s[3])
      [] s[1] = "Return" -> IF s[2] = NoType THEN {} ELSE ExprArrays(s[2])
      [] OTHER -> {}

BareStruct(t) == getTypeKind(t) = "STRUCT"

\* C27: in a program found valid, no parameter, local, struct field,
\* element type of an allocated array or return type of a function is a
\* Struct type itself.
C27_NoBareStruct ==
    pc = "valid" =>
        /\ \A f \in Functions :
              /\ \A i \in 1..Len(f.params) : ~BareStruct(f.params[i].type)
              /\ \A i \in 1..Len(f.locals) : ~BareStruct(f.locals[i].type)
              /\ \A t \in StmtArrays(f.body) : ~BareStruct(t)
              /\ ~BareStruct(f.returnType)
        /\ \A s \in Structs : \A i \in 1..Len(s.fields) : ~BareStruct(s.fields[i].type)

\* The orders a list can be put in.
Orderings(list) ==
    {[i \in 1..Len(list) |-> list[order[i]]] :
        order \in {o \in [1..Len(list) -> 1..Len(list)] :
                      \A i, j \in 1..Len(list) : o[i] = o[j] => i = j}}

\* C28: whether a program is found valid does not depend on the order of its
\* functions: the check of the program with its functions in any other order
\* ends as the check of the program did.
C28_VerdictIndependentOfOrder ==
    pc \in {"valid", "invalid"} =>
        \A fs \in Orderings(program.functions) :
            (ProgramCheck([program EXCEPT !.functions = fs]) = NoError) <=> (pc = "valid")

\* The check of a program ends as Program::check as a whole says.
VerdictIsProgramCheck ==
    /\ pc = "valid" => ProgramCheck(program) = NoError
    /\ pc = "invalid" => ProgramCheck(program) = message

\* The structs and the functions of the program that do not check.
BadStructs ==
    {i \in 1..Len(program.structs) :
        StructDefinitionCheck(program.structs[i],
                              constructGamma(program.externs, program.functions),
                              constructDelta(program.structs)) # NoError}

BadFunctions ==
    {i \in 1..Len(program.functions) :
        FunctionDefinitionCheck(program.functions[i],
                                constructGamma(program.externs, program.functions),
                                constructDelta(program.structs)) # NoError}

\* C29: Program::check fails at its first failing step, the steps being the
\* loops over the top-level names, the search for main, the structs in
\* order, the functions in order: a step is only reached when all the steps
\* before it passed, a check that ends invalid has the message of the first
\* step that fails (that of the missing main when there is no valid main,
\* whatever the structs and functions are) and stopped there, and a check
\* that ends valid had no failing step.
C29_FailFastInFixedOrder ==
    /\ pc \in {"structs", "functions", "valid"} =>
            /\ TopLevelNamesCheck(program, {}) = NoError
            /\ MainFound(program)
    /\ pc = "structs" => \A i \in BadStructs : i >= at
    /\ pc \in {"functions", "valid"} => BadStructs = {}
    /\ pc = "functions" => \A i \in BadFunctions : i >= at
    /\ pc = "valid" => BadFunctions = {}
    /\ pc = "invalid" =>
            IF TopLevelNamesCheck(program, {}) # NoError
                THEN message = TopLevelNamesCheck(program, {})
            ELSE IF ~MainFound(program)
                THEN /\ message = "no 'main' function with type '() -> int' exists"
                     /\ at = 1
            ELSE IF BadStructs # {}
                THEN /\ at = Least(BadStructs)
                     /\ message = StructDefinitionCheck(program.structs[at], gamma, delta)
            ELSE /\ BadFunctions # {}
                 /\ at = Least(BadFunctions)
                 /\ message = FunctionDefinitionCheck(program.functions[at], gamma, delta)
    /\ VerdictIsProgramCheck

\* A program with no valid main, with a struct and a function that do not
\* check, was reported as lacking main.
C29_Witness ==
    /\ pc = "invalid"
    /\ BadStructs # {}
    /\ BadFunctions # {}
    /\ ~MainFound(program)
    /\ message = "no 'main' function with type '() -> int' exists"

\* The last of the declarations that declares name, 0 when none does.
LastNamed(declarations, name) ==
    LET named == {0} \cup {i \in 1..Len(declarations) : declarations[i].name = name}
    IN  CHOOSE i \in named : \A j \in named : j <= i

\* The type a name has in the body of a function: that of the last local of
\* that name, else that of the last parameter of that name, else the one
\* the baseline binds it to.
InForce(f, name, baseline) ==
    IF LastNamed(f.locals, name) > 0 THEN f.locals[LastNamed(f.locals, name)].type
    ELSE IF LastNamed(f.params, name) > 0 THEN f.params[LastNamed(f.params, name)].type
    ELSE baseline[name]

\* The name the first function of the program returns.
Returned == program.functions[1].body[2][1][2][2][2]

\* The first function of the program has been checked.
FirstChecked == pc \in {"valid", "invalid"} \/ (pc = "functions" /\ at > 1)

\* The program is one of ShadowPrograms: they alone have an extern and a
\* function f.
Shadowing ==
    /\ program.externs # <<>>
    /\ program.functions # <<>>
    /\ program.functions[1].name = "f"

====
